---- MODULE Spec2Model ----
(***************************************************************************)
(* Retention-Agent: the analysis pipeline.                                 *)
(*                                                                         *)
(* An oracle response is a sequence of tokens.  The punctuation that the   *)
(* parser and its regular expressions look at ('[', ']', '{', '}', ',',    *)
(* ':', the double quote, space, newline, the code fence) is one token     *)
(* each; a run of other characters (a word) is one token.  No regular      *)
(* expression of the source can match inside a word, so words are atomic.  *)
(***************************************************************************)
EXTENDS Integers, Sequences, FiniteSets, TLC

DQ == "\""
NL == "\n"
SP == " "
\* the markdown code fence (three backquotes), with and without the json tag
FENCE == "<fence>"
FENCE_JSON == "<fence>json"

NumberWords == {"0", "1"}
LiteralWords == {"null", "true", "false"}
Punct == {"[", "]", "{", "}", ",", ":", DQ, NL, SP, FENCE, FENCE_JSON}

\* \s of the regular expressions, str.strip() and the JSON whitespace
IsSpace(t) == t \in {SP, NL}
\* [a-z_] under re.IGNORECASE, applied to the first character of a token
IsAlpha(t) == t \notin (Punct \cup NumberWords)

(***************************************************************************)
(* str helpers                                                             *)
(***************************************************************************)
RECURSIVE lstrip(_)
lstrip(s) == IF Len(s) > 0 /\ IsSpace(Head(s)) THEN lstrip(Tail(s)) ELSE s

RECURSIVE rstrip(_)
rstrip(s) ==
    IF Len(s) > 0 /\ IsSpace(s[Len(s)]) THEN rstrip(SubSeq(s, 1, Len(s) - 1)) ELSE s

strip(s) == rstrip(lstrip(s))

\* str.find / str.rfind, 1-based; 0 when the token does not occur
find(s, t) ==
    IF \E i \in 1..Len(s) : s[i] = t
    THEN CHOOSE i \in 1..Len(s) : s[i] = t /\ \A j \in 1..(i - 1) : s[j] # t
    ELSE 0

rfind(s, t) ==
    IF \E i \in 1..Len(s) : s[i] = t
    THEN CHOOSE i \in 1..Len(s) : s[i] = t /\ \A j \in (i + 1)..Len(s) : s[j] # t
    ELSE 0

\* str.lower() on the words the model uses
LowerWord(w) ==
    CASE w = "High" -> "high"
      [] w = "HIGH" -> "high"
      [] w = "Medium" -> "medium"
      [] w = "Low" -> "low"
      [] w = "A" -> "a"
      [] w = "B" -> "b"
      [] w = "Unknown" -> "unknown"
      [] w = "Client" -> "client"
      [] w = "Module" -> "module"
      [] OTHER -> w

lower(s) == [i \in 1..Len(s) |-> LowerWord(s[i])]

(***************************************************************************)
(* JSON values, json.loads                                                 *)
(***************************************************************************)
JStr(x) == [t |-> "str", s |-> x]
JNum(w) == [t |-> "num", n |-> w]
JLit(w) == [t |-> "lit", w |-> w]
JArr(a) == [t |-> "arr", a |-> a]
JObj(o) == [t |-> "obj", o |-> o]

Fail == [ok |-> FALSE]
Ok(v, n) == [ok |-> TRUE, v |-> v, n |-> n]

RECURSIVE SkipWs(_, _)
SkipWs(s, i) == IF i <= Len(s) /\ IsSpace(s[i]) THEN SkipWs(s, i + 1) ELSE i

\* index of the quote closing a string whose content starts at j; 0 when the
\* string is unterminated or holds a control character (strict mode)
RECURSIVE StrEnd(_, _)
StrEnd(s, j) ==
    IF j > Len(s) THEN 0
    ELSE IF s[j] = DQ THEN j
    ELSE IF s[j] = NL THEN 0
    ELSE StrEnd(s, j + 1)

RECURSIVE ParseValue(_, _)
RECURSIVE ParseElems(_, _, _)
RECURSIVE ParseMembers(_, _, _)

ParseValue(s, i) ==
    IF i > Len(s) THEN Fail
    ELSE IF s[i] = DQ
         THEN LET j == StrEnd(s, i + 1)
              IN  IF j = 0 THEN Fail ELSE Ok(JStr(SubSeq(s, i + 1, j - 1)), j + 1)
    ELSE IF s[i] \in NumberWords THEN Ok(JNum(s[i]), i + 1)
    ELSE IF s[i] \in LiteralWords THEN Ok(JLit(s[i]), i + 1)
    ELSE IF s[i] = "["
         THEN LET k == SkipWs(s, i + 1)
              IN  IF k <= Len(s) /\ s[k] = "]"
                  THEN Ok(JArr(<<>>), k + 1)
                  ELSE ParseElems(s, k, <<>>)
    ELSE IF s[i] = "{"
         THEN LET k == SkipWs(s, i + 1)
              IN  IF k <= Len(s) /\ s[k] = "}"
                  THEN Ok(JObj(<<>>), k + 1)
                  ELSE ParseMembers(s, k, <<>>)
    ELSE Fail

ParseElems(s, k, acc) ==
    LET r == ParseValue(s, k)
    IN  IF ~r.ok THEN Fail
        ELSE LET m == SkipWs(s, r.n)
             IN  IF m > Len(s) THEN Fail
                 ELSE IF s[m] = "]" THEN Ok(JArr(Append(acc, r.v)), m + 1)
                 ELSE IF s[m] = ","
                      THEN ParseElems(s, SkipWs(s, m + 1), Append(acc, r.v))
                 ELSE Fail

\* a dict is a function from keys to values; a repeated key keeps the last value
ParseMembers(s, k, acc) ==
    IF k > Len(s) THEN Fail
    ELSE IF s[k] # DQ THEN Fail
    ELSE LET j == StrEnd(s, k + 1)
         IN  IF j = 0 THEN Fail
             ELSE LET key == SubSeq(s, k + 1, j - 1)
                      c == SkipWs(s, j + 1)
                  IN  IF c > Len(s) THEN Fail
                      ELSE IF s[c] # ":" THEN Fail
                      ELSE LET r == ParseValue(s, SkipWs(s, c + 1))
                           IN  IF ~r.ok THEN Fail
                               ELSE LET m == SkipWs(s, r.n)
                                        acc2 == (key :> r.v) @@ acc
                                    IN  IF m > Len(s) THEN Fail
                                        ELSE IF s[m] = "}" THEN Ok(JObj(acc2), m + 1)
                                        ELSE IF s[m] = ","
                                             THEN ParseMembers(s, SkipWs(s, m + 1), acc2)
                                        ELSE Fail

\* json.loads: [ok |-> TRUE, v |-> value], or Fail for json.JSONDecodeError
json_loads(s) ==
    LET r == ParseValue(s, SkipWs(s, 1))
    IN  IF ~r.ok THEN Fail
        ELSE IF SkipWs(s, r.n) <= Len(s) THEN Fail
        ELSE [ok |-> TRUE, v |-> r.v]

(***************************************************************************)
(* The regular expressions of parse_llm_response                           *)
(***************************************************************************)
Min(S) == CHOOSE x \in S : \A y \in S : x <= y

\* where the leftmost match at or after i starts; 0 when there is none
FirstFrom(starts, i) ==
    IF \E j \in starts : j >= i THEN Min({j \in starts : j >= i}) ELSE 0

\* re.sub(r',\s*]', ']', s) and re.sub(r',\s*}', '}', s): a match is a comma,
\* any whitespace, the closer
TrailingCommaStarts(s, closer) ==
    {j \in 1..Len(s) : s[j] = "," /\ SkipWs(s, j + 1) <= Len(s) /\ s[SkipWs(s, j + 1)] = closer}

RECURSIVE SubTrailingCommaFrom(_, _, _, _)
SubTrailingCommaFrom(s, closer, starts, i) ==
    LET j == FirstFrom(starts, i)
    IN  IF j = 0 THEN SubSeq(s, i, Len(s))
        ELSE SubSeq(s, i, j - 1) \o <<closer>>
                 \o SubTrailingCommaFrom(s, closer, starts, SkipWs(s, j + 1) + 1)

SubTrailingComma(s, closer) ==
    SubTrailingCommaFrom(s, closer, TrailingCommaStarts(s, closer), 1)

\* re.sub(r'}\s*{', '},{', s)
MissingCommaStarts(s) ==
    {j \in 1..Len(s) : s[j] = "}" /\ SkipWs(s, j + 1) <= Len(s) /\ s[SkipWs(s, j + 1)] = "{"}

RECURSIVE SubMissingCommaFrom(_, _, _)
SubMissingCommaFrom(s, starts, i) ==
    LET j == FirstFrom(starts, i)
    IN  IF j = 0 THEN SubSeq(s, i, Len(s))
        ELSE SubSeq(s, i, j - 1) \o <<"}", ",", "{">>
                 \o SubMissingCommaFrom(s, starts, SkipWs(s, j + 1) + 1)

SubMissingComma(s) == SubMissingCommaFrom(s, MissingCommaStarts(s), 1)

\* re.sub(r'"\s*\n\s*"([a-z_])', r'",\n"\1', s, flags=re.IGNORECASE): a match
\* is a quote, whitespace holding a newline, a quote, a letter or underscore
MissingKeyCommaStarts(s) ==
    {j \in 1..Len(s) :
        /\ s[j] = DQ
        /\ SkipWs(s, j + 1) + 1 <= Len(s)
        /\ s[SkipWs(s, j + 1)] = DQ
        /\ \E m \in (j + 1)..(SkipWs(s, j + 1) - 1) : s[m] = NL
        /\ IsAlpha(s[SkipWs(s, j + 1) + 1])}

\* the letter the group captured is put back by \1: the scan resumes at it
RECURSIVE SubMissingKeyCommaFrom(_, _, _)
SubMissingKeyCommaFrom(s, starts, i) ==
    LET j == FirstFrom(starts, i)
    IN  IF j = 0 THEN SubSeq(s, i, Len(s))
        ELSE SubSeq(s, i, j - 1) \o <<DQ, ",", NL, DQ>>
                 \o SubMissingKeyCommaFrom(s, starts, SkipWs(s, j + 1) + 1)

SubMissingKeyComma(s) == SubMissingKeyCommaFrom(s, MissingKeyCommaStarts(s), 1)

\* the next brace at or after i; 0 when there is none
NextBrace(s, i) == FirstFrom({j \in 1..Len(s) : s[j] \in {"{", "}"}}, i)

\* obj_pattern = \{[^{}]*(?:\{[^{}]*\}[^{}]*)*\} : the index where a match
\* that has consumed the brace at i ends, 0 when there is no match
RECURSIVE ObjMatchEnd(_, _)
ObjMatchEnd(s, i) ==
    LET b == NextBrace(s, i + 1)
    IN  IF b = 0 THEN 0
        ELSE IF s[b] = "}" THEN b
        ELSE LET c == NextBrace(s, b + 1)
             IN  IF c = 0 THEN 0
                 ELSE IF s[c] # "}" THEN 0
                 ELSE ObjMatchEnd(s, c)

\* re.findall(obj_pattern, s, re.DOTALL): leftmost non-overlapping matches
ObjStarts(s) == {j \in 1..Len(s) : s[j] = "{" /\ ObjMatchEnd(s, j) # 0}

RECURSIVE FindAllObjectsFrom(_, _, _)
FindAllObjectsFrom(s, starts, i) ==
    LET j == FirstFrom(starts, i)
    IN  IF j = 0 THEN <<>>
        ELSE <<SubSeq(s, j, ObjMatchEnd(s, j))>>
                 \o FindAllObjectsFrom(s, starts, ObjMatchEnd(s, j) + 1)

FindAllObjects(s) == FindAllObjectsFrom(s, ObjStarts(s), 1)

(***************************************************************************)
(* parse_llm_response, stage by stage                                      *)
(***************************************************************************)
\* strip, drop an opening and a closing code fence, strip again
CleanResult(result) ==
    LET a == strip(result)
        b == IF Len(a) > 0 /\ Head(a) = FENCE_JSON THEN Tail(a)
             ELSE IF Len(a) > 0 /\ Head(a) = FENCE THEN Tail(a)
             ELSE a
        c == IF Len(b) > 0 /\ b[Len(b)] = FENCE THEN SubSeq(b, 1, Len(b) - 1) ELSE b
    IN  strip(c)

\* start_idx != -1 and end_idx > start_idx
HasSpan(clean) == find(clean, "[") # 0 /\ rfind(clean, "]") >= find(clean, "[")

\* the span cut at the first closing bracket instead of the last
JsonStr_FirstClose(clean) == SubSeq(clean, find(clean, "["), find(clean, "]"))

\* json_str = clean_result[start_idx:end_idx]
JsonStr(clean) == SubSeq(clean, find(clean, "["), rfind(clean, "]"))

\* the four substitutions, in the order the code applies them
FixedJson(json_str) ==
    LET f1 == SubTrailingComma(json_str, "]")
        f2 == SubTrailingComma(f1, "}")
        f3 == SubMissingComma(f2)
    IN  SubMissingKeyComma(f3)

CLIENT_NAME == <<"client_name">>
RISK_FACTOR == <<"risk_factor">>

\* the body of the salvage loop for one match: <<obj>> when it is kept
SalvageOne(match) ==
    LET obj_fixed == SubTrailingComma(SubTrailingComma(match, "}"), "]")
        r == json_loads(obj_fixed)
    IN  IF ~r.ok THEN <<>>
        ELSE IF r.v.t = "obj" /\ CLIENT_NAME \in DOMAIN r.v.o THEN <<r.v>>
        ELSE <<>>

RECURSIVE SalvageAll(_)
SalvageAll(matches) ==
    IF Len(matches) = 0 THEN <<>>
    ELSE SalvageOne(Head(matches)) \o SalvageAll(Tail(matches))

\* objects after the loop over re.findall(obj_pattern, json_str)
SalvagedObjects(json_str) == SalvageAll(FindAllObjects(json_str))

(***************************************************************************)
(* Python values                                                           *)
(***************************************************************************)
\* bool(v) of a decoded JSON value
Truthy(v) ==
    CASE v.t = "arr" -> Len(v.a) > 0
      [] v.t = "obj" -> DOMAIN v.o # {}
      [] v.t = "str" -> Len(v.s) > 0
      [] v.t = "num" -> v.n # "0"
      [] v.t = "lit" -> v.w = "true"

\* dict.get(key, default)
Get(d, key, default) == IF key \in DOMAIN d THEN d[key] ELSE default

HIGH == JStr(<<"high">>)
MEDIUM == JStr(<<"medium">>)
LOW == JStr(<<"low">>)

\* client.get("risk_factor", "").lower() raises AttributeError unless the
\* record is a dict whose risk_factor, when present, is a str
FilterRaises(client) ==
    \/ client.t # "obj"
    \/ Get(client.o, RISK_FACTOR, JStr(<<>>)).t # "str"

\* the filter without the call of lower()
IsRisky_CaseSensitive(client) ==
    Get(client.o, RISK_FACTOR, JStr(<<>>)) \in {HIGH, MEDIUM}

\* client.get("risk_factor", "").lower() in ["high", "medium"]
IsRisky(client) ==
    LET rf == JStr(lower(Get(client.o, RISK_FACTOR, JStr(<<>>)).s))
    IN  rf \in {HIGH, MEDIUM}

\* the list comprehension of analysis_agent over a list of dicts
RiskyClients(results) == SelectSeq(results, IsRisky)

\* sum(1 for c in clients if c.get("risk_factor") == value)
CountRisk(clients, value) ==
    Cardinality({i \in 1..Len(clients) :
        RISK_FACTOR \in DOMAIN clients[i].o /\ clients[i].o[RISK_FACTOR] = value})

(***************************************************************************)
(* The result bag and its merge                                            *)
(***************************************************************************)
\* a reducer that keeps only the errors of the latest stage
merge_errors_KeepRight(left, right) == right

\* merge_errors: None and [] are both the empty list
merge_errors(left, right) == left \o right

EmptyDict == [k \in {} |-> TRUE]

\* the update a stage returned is written into the bag: the errors channel is
\* Annotated with merge_errors, every other channel keeps the last value
ApplyWrites(bag, writes) ==
    [k \in DOMAIN bag \cup DOMAIN writes |->
        IF k \notin DOMAIN writes THEN bag[k]
        ELSE IF k = "errors" THEN merge_errors(Get(bag, "errors", <<>>), writes[k])
        ELSE writes[k]]

(***************************************************************************)
(* The oracle responses the model explores                                 *)
(***************************************************************************)
\* longest list of records in an oracle response
MaxRecords == 2

Str(w) == <<DQ, w, DQ>>
KV(key, value) == Str(key) \o <<":">> \o value
Client(name, risk) ==
    <<"{">> \o KV("client_name", Str(name)) \o <<",">> \o KV("risk_factor", risk) \o <<"}">>

RecHigh == Client("A", Str("high"))
RecLow == Client("B", Str("low"))
RecUpper == Client("C", Str("High"))
RecNull == Client("D", <<"null">>)
RecMissing == <<"{">> \o KV("client_name", Str("E")) \o <<"}">>
RecNoName == <<"{">> \o KV("k", Str("x")) \o <<"}">>
\* a string value that holds a comma and a closing bracket
RecComma ==
    <<"{">> \o KV("client_name", Str("F")) \o <<",">> \o KV("risk_factor", Str("medium"))
        \o <<",">> \o KV("summary", <<DQ, "x", ",", "]", DQ>>) \o <<"}">>
\* a field nested two levels deep
RecDeep ==
    <<"{">> \o KV("client_name", Str("G")) \o <<",">>
        \o KV("m", <<"{">> \o KV("n", <<"{">> \o KV("k", Str("x")) \o <<"}">>) \o <<"}">>)
        \o <<"}">>
\* a field nested one level deep
RecNested ==
    <<"{">> \o KV("client_name", Str("H")) \o <<",">>
        \o KV("m", <<"{">> \o KV("k", Str("x")) \o <<"}">>) \o <<"}">>
\* no colon after the key: not decodable
RecBroken == <<"{">> \o Str("client_name") \o <<SP>> \o Str("I") \o <<"}">>

RecordTexts ==
    {RecHigh, RecLow, RecUpper, RecNull, RecMissing, RecNoName, RecComma, RecDeep,
     RecNested, RecBroken, <<"1">>}

RECURSIVE SeqsUpTo(_, _)
SeqsUpTo(S, n) ==
    IF n = 0 THEN {<<>>}
    ELSE LET shorter == SeqsUpTo(S, n - 1)
         IN  shorter \cup {Append(q, x) : q \in {r \in shorter : Len(r) = n - 1}, x \in S}

RECURSIVE Join(_, _)
Join(recs, sep) ==
    IF Len(recs) = 0 THEN <<>>
    ELSE IF Len(recs) = 1 THEN Head(recs)
    ELSE Head(recs) \o sep \o Join(Tail(recs), sep)

\* what surrounds and separates the records of a response
Style(pre, sep, tail, post) == [pre |-> pre, sep |-> sep, tail |-> tail, post |-> post]
Plain == Style(<<>>, <<",">>, <<>>, <<>>)
Fenced == Style(<<FENCE_JSON, NL>>, <<",", NL>>, <<>>, <<NL, FENCE>>)
Prose == Style(<<"note", SP>>, <<",">>, <<>>, <<SP, "note">>)
ProseBracketBefore == Style(<<"note", SP, "[", "1", "]", SP>>, <<",">>, <<>>, <<>>)
ProseBracketAfter == Style(<<>>, <<",">>, <<>>, <<SP, "[", "x", "]">>)
TrailingComma == Style(<<>>, <<",">>, <<",", NL>>, <<>>)
MissingComma == Style(<<>>, <<NL>>, <<>>, <<>>)
DoubleComma == Style(<<>>, <<",">>, <<",", ",">>, <<>>)
Unclosed == Style(<<>>, <<",">>, <<":">>, <<>>)

Styles ==
    {Plain, Fenced, Prose, ProseBracketBefore, ProseBracketAfter, TrailingComma,
     MissingComma, DoubleComma, Unclosed}

ArrayText(recs, st) == st.pre \o <<"[">> \o Join(recs, st.sep) \o st.tail \o <<"]">> \o st.post

\* responses that are not an array of records
OtherTexts ==
    {<<>>, <<"note">>, <<"0">>, <<"null">>, <<"{", "}">>, RecHigh,
     <<"{">> \o KV("a", <<"[", "1", "]">>) \o <<",">> \o KV("b", <<"[", "1", "]">>) \o <<"}">>,
     <<"]", SP, "[">>}

Responses(records, styles) ==
    {ArrayText(recs, st) : recs \in SeqsUpTo(records, MaxRecords), st \in styles}

AllResponses == Responses(RecordTexts, Styles) \cup OtherTexts
WorkflowResponses ==
    Responses({RecHigh, RecLow, RecNull}, {Plain, TrailingComma, DoubleComma})
    \cup {<<"note">>, ArrayText(<<RecUpper>>, Plain)}

(***************************************************************************)
(* The Knowledge Chunker's documents                                       *)
(***************************************************************************)
\* len(content) > 50
MinContentLength == 50

\* Client names are sequences of words, spaces and underscores.
NameA == <<"A">>
NameLowerA == <<"a">>
NameAB == <<"A", SP, "B">>
NameA_B == <<"A", "_", "B">>
NameList == <<"list">>
Unknown == <<"Unknown">>

\* the number of characters of a name
RECURSIVE NameLen(_)
NameLen(name) ==
    IF Len(name) = 0 THEN 0
    ELSE (IF Head(name) \in {"list"} THEN 4 ELSE IF Head(name) = "Unknown" THEN 7 ELSE 1)
             + NameLen(Tail(name))

\* An oracle text of the chunker is a sequence of segments:
\*   a section   "[MARKER: client]" followed by len characters without a bracket,
\*   a block     "===== CLIENT: client =====" and a newline (the closing
\*               "=====" may be missing),
\*   other text  len characters without a bracket.
Section(marker, client, len) ==
    [kind |-> "section", marker |-> marker, client |-> client, len |-> len, closed |-> TRUE]
LegacyBlock(client, closed) ==
    [kind |-> "legacy", marker |-> "", client |-> client,
     len |-> 14 + NameLen(client) + (IF closed THEN 6 ELSE 0) + 1, closed |-> closed]
OtherText(len) ==
    [kind |-> "text", marker |-> "", client |-> <<>>, len |-> len, closed |-> TRUE]

\* section_patterns: the marker of each pattern and its section_type
section_patterns ==
    <<[marker |-> "CLIENT OVERVIEW", section_type |-> "overview"],
      [marker |-> "WEEKLY USAGE", section_type |-> "weekly"],
      [marker |-> "MODULE USAGE", section_type |-> "modules"],
      [marker |-> "BUGS AFFECTING", section_type |-> "bugs"],
      [marker |-> "USAGE TREND", section_type |-> "trends"],
      [marker |-> "REPRESENTATIVE", section_type |-> "representative"]>>

\* client_name.replace(' ', '_').lower()
NormName(name) == [i \in 1..Len(name) |-> IF name[i] = SP THEN "_" ELSE LowerWord(name[i])]

\* a document: its id, the metadata the model keeps, the length of the
\* section it holds and the keys of the tickets it lists
Doc(id, section_type, source, client_name, content_len, tickets) ==
    [id |-> id, section_type |-> section_type, source |-> source,
     client_name |-> client_name, content_len |-> content_len, tickets |-> tickets]

\* the index of the next section after p, Len(text) + 1 when there is none
NextSection(text, p) ==
    LET later == {q \in (p + 1)..Len(text) : text[q].kind = "section"}
    IN  IF later = {} THEN Len(text) + 1 ELSE Min(later)

RECURSIVE SumLen(_, _, _)
SumLen(text, from, to) ==
    IF from > to THEN 0 ELSE text[from].len + SumLen(text, from + 1, to)

\* len(match[1].strip()): the text after the marker up to the next "[" or
\* the end, without the newline that ends it
ContentLen(text, p) ==
    LET last == NextSection(text, p) - 1
    IN  SumLen(text, p, last) - (IF last > p /\ text[last].kind = "legacy" THEN 1 ELSE 0)

\* Tier 1: one pass per section pattern, the matches in order of appearance
RECURSIVE TaggedFrom(_, _, _, _)
TaggedFrom(text, p, i, ts) ==
    IF i > Len(text) THEN <<>>
    ELSE (IF /\ text[i].kind = "section"
             /\ text[i].marker = section_patterns[p].marker
             /\ ContentLen(text, i) > MinContentLength
          THEN <<Doc(NormName(text[i].client) \o <<"_", section_patterns[p].section_type, "_", ts>>,
                     section_patterns[p].section_type, "rag_agent", text[i].client,
                     ContentLen(text, i), <<>>)>>
          ELSE <<>>)
         \o TaggedFrom(text, p, i + 1, ts)

RECURSIVE TaggedDocs(_, _, _)
TaggedDocs(text, p, ts) ==
    IF p > Len(section_patterns) THEN <<>>
    ELSE TaggedFrom(text, p, 1, ts) \o TaggedDocs(text, p + 1, ts)

\* Tier 2: llm_output.split("===== CLIENT:"), the pieces that hold "====="
RECURSIVE LegacyDocs(_, _)
LegacyDocs(text, ts) ==
    IF Len(text) = 0 THEN <<>>
    ELSE (IF Head(text).kind = "legacy" /\ Head(text).closed
          THEN <<Doc(<<"client", "_">> \o NormName(Head(text).client) \o <<"_", ts>>,
                     "full", "rag_agent", Head(text).client, 0, <<>>)>>
          ELSE <<>>)
         \o LegacyDocs(Tail(text), ts)

\* the three tiers all contributing
OracleDocs_AllTiers(text, ts) ==
    TaggedDocs(text, 1, ts) \o LegacyDocs(text, ts)
        \o <<Doc(<<"full", "_", "analysis", "_", ts>>, "full", "rag_agent", <<>>, 0, <<>>)>>

\* Tier 3: the whole output as one document
OracleDocs(text, ts) ==
    IF Len(TaggedDocs(text, 1, ts)) > 0 THEN TaggedDocs(text, 1, ts)
    ELSE IF Len(LegacyDocs(text, ts)) > 0 THEN LegacyDocs(text, ts)
    ELSE <<Doc(<<"full", "_", "analysis", "_", ts>>, "full", "rag_agent", <<>>, 0, <<>>)>>

\* a ticket as the tracker gives it: the client may be in the custom field,
\* in the description or in the summary
Ticket(key, custom, description, summary) ==
    [key |-> key, custom |-> custom, description |-> description, summary |-> summary]

\* simplify_jira_tickets: the client_name of one ticket
TicketClient(ticket) ==
    LET c1 == IF ticket.custom = <<>> \/ ticket.custom = Unknown
              THEN ticket.description ELSE ticket.custom
        c2 == IF c1 = <<>> THEN ticket.summary ELSE c1
    IN  IF c2 = <<>> THEN Unknown ELSE c2

simplify_jira_tickets(tickets) ==
    [i \in 1..Len(tickets) |-> [key |-> tickets[i].key, client_name |-> TicketClient(tickets[i])]]

\* client_tickets.keys(): the clients of the tickets in order of first appearance
RECURSIVE TicketClients(_)
TicketClients(tickets) ==
    IF Len(tickets) = 0 THEN <<>>
    ELSE LET rest == TicketClients(SubSeq(tickets, 1, Len(tickets) - 1))
             c == tickets[Len(tickets)].client_name
         IN  IF \E j \in 1..Len(rest) : rest[j] = c THEN rest ELSE Append(rest, c)

\* only the first ticket of a client kept
TicketsOf_First(tickets, client) ==
    LET mine == SelectSeq(tickets, LAMBDA t : t.client_name = client)
    IN  <<mine[1].key>>

\* client_tickets[client]: the keys of the tickets of one client
TicketsOf(tickets, client) ==
    LET mine == SelectSeq(tickets, LAMBDA t : t.client_name = client)
    IN  [j \in 1..Len(mine) |-> mine[j].key]

\* the documents made from the tickets: none when the list is empty
JiraDocs(jira, ts) ==
    IF Len(jira) = 0 THEN <<>>
    ELSE LET simplified_tickets == simplify_jira_tickets(jira)
             cs == TicketClients(simplified_tickets)
         IN  [j \in 1..Len(cs) |->
                 Doc(NormName(cs[j]) \o <<"_", "jira", "_", "direct", "_", ts>>, "jira_tickets",
                     "jira_direct", cs[j], 0, TicketsOf(simplified_tickets, cs[j]))]
             \o <<Doc(<<"jira", "_", "summary", "_", ts>>, "jira_summary", "jira_direct", <<>>, 0,
                      [j \in 1..Len(simplified_tickets) |-> simplified_tickets[j].key])>>

\* a line of a synthesized document: its fixed text, the names and the
\* numbers formatted into it
Line(label, names, nums) == [label |-> label, names |-> names, nums |-> nums]

\* reps = client.get("client_representatives", [])
RepsOf(client) == client.client_representatives

\* the lines of one client in the representatives document
RepLines(client) ==
    IF Len(RepsOf(client)) > 0
    THEN [k \in 1..(4 * Len(RepsOf(client))) |->
             LET r == RepsOf(client)[(k + 3) \div 4]
             IN  CASE k % 4 = 1 -> Line("Client:", <<client.client_name>>, <<>>)
                   [] k % 4 = 2 -> Line("Representative:", <<r.full_name>>, <<>>)
                   [] k % 4 = 3 -> Line("Email:", <<r.email>>, <<>>)
                   [] OTHER -> Line("", <<>>, <<>>)]
    ELSE <<Line("Client:", <<client.client_name>>, <<>>),
           Line("Representative: Not assigned yet", <<>>, <<>>),
           Line("", <<>>, <<>>)>>

RECURSIVE AllRepLines(_)
AllRepLines(usage) ==
    IF Len(usage) = 0 THEN <<>>
    ELSE AllRepLines(SubSeq(usage, 1, Len(usage) - 1)) \o RepLines(usage[Len(usage)])

\* clients_with_reps
ClientsWithReps(usage) == Len(SelectSeq(usage, LAMBDA c : Len(RepsOf(c)) > 0))

\* "\n".join(rep_lines)
RepresentativesContent(usage) ==
    <<Line("Client Representatives Summary", <<>>, <<>>)>> \o AllRepLines(usage)
    \o <<Line("Total clients:", <<>>, <<Len(usage)>>),
          Line("Clients with representatives:", <<>>, <<ClientsWithReps(usage)>>),
          Line("Clients without representatives:", <<>>, <<Len(usage) - ClientsWithReps(usage)>>)>>

\* the activities of all the weeks of a client
RECURSIVE Activities(_)
Activities(weeks) ==
    IF Len(weeks) = 0 THEN <<>>
    ELSE Activities(SubSeq(weeks, 1, Len(weeks) - 1)) \o weeks[Len(weeks)]

\* total_usage += activity.get("count", 0)
RECURSIVE TotalUsage(_)
TotalUsage(activities) ==
    IF Len(activities) = 0 THEN 0
    ELSE TotalUsage(SubSeq(activities, 1, Len(activities) - 1)) + activities[Len(activities)].count

\* modules_used
ModulesUsed(activities) == {activities[k].name : k \in 1..Len(activities)}

\* full_data_clients
FullDataClients ==
    {<<"development">>, <<"construction", SP, "kat">>, <<"contruction", SP, "kat">>,
     <<"ub", SP, "civil">>}

\* client_name.lower() in full_data_clients: 1 for "Yes", 0 for "No"
HasJira(client_name) ==
    IF [i \in 1..Len(client_name) |-> LowerWord(client_name[i])] \in FullDataClients THEN 1 ELSE 0

\* a row of the all-clients table
UsageRow(client) ==
    LET activities == Activities(client.weeks)
    IN  Line("|", <<client.client_name>>,
             <<TotalUsage(activities), Cardinality(ModulesUsed(activities)), Len(client.weeks),
               HasJira(client.client_name)>>)

\* "\n".join(all_clients_lines)
AllClientsContent(usage) ==
    <<Line("ALL CLIENTS USAGE SUMMARY", <<>>, <<>>), Line("Total Clients:", <<>>, <<Len(usage)>>),
      Line("ALL CLIENTS USAGE TABLE:", <<>>, <<>>)>>
    \o [i \in 1..Len(usage) |-> UsageRow(usage[i])]
    \o <<Line("", <<>>, <<>>), Line("Note:", <<>>, <<>>),
          Line("All clients have usage data available.", <<>>, <<Len(usage)>>)>>

\* client_list_content
ClientListContent(usage) ==
    <<Line("Varicon Client List", <<>>, <<>>), Line("Total Number of Clients:", <<>>, <<Len(usage)>>),
      Line("List of All Clients:", <<>>, <<>>)>>
    \o [i \in 1..Len(usage) |->
            Line("(Representative:)",
                 <<usage[i].client_name>>
                 \o [k \in 1..Len(RepsOf(usage[i])) |-> RepsOf(usage[i])[k].full_name],
                 <<i>>)]
    \o <<Line("Summary:", <<>>, <<>>), Line("- Total clients:", <<>>, <<Len(usage)>>),
          Line("- Clients with usage data only:", <<>>, <<Len(usage) - 3>>)>>

\* a document made from usage_data: its content, and generated_at, the clock
\* read again in the second of the run
UsageDoc(name, section_type, content, ts) ==
    Doc(name \o <<"_", ts>>, section_type, "usage_data", <<>>, 0, <<>>)
    @@ [content |-> content, generated_at |-> ts]

\* synthesized documents that quote the length of the oracle text
UsageDocs_QuotingOracle(llm_output, usage, ts) ==
    <<UsageDoc(<<"representatives", "_", "summary">>, "representatives",
               RepresentativesContent(usage) \o <<Line("", <<>>, <<Len(llm_output)>>)>>, ts),
      UsageDoc(<<"all", "_", "clients", "_", "usage">>, "all_clients", AllClientsContent(usage), ts),
      UsageDoc(<<"client", "_", "list">>, "client_list", ClientListContent(usage), ts)>>

\* the three documents made from usage_data
UsageDocs(llm_output, usage, ts) ==
    <<UsageDoc(<<"representatives", "_", "summary">>, "representatives",
               RepresentativesContent(usage), ts),
      UsageDoc(<<"all", "_", "clients", "_", "usage">>, "all_clients", AllClientsContent(usage), ts),
      UsageDoc(<<"client", "_", "list">>, "client_list", ClientListContent(usage), ts)>>

\* len(client.get("usage", [])) raises TypeError when usage is null
ParseRaises(usage) == \E i \in 1..Len(usage) : usage[i].usage = "null"

parse_llm_text_to_documents(llm_output, usage, tickets, ts) ==
    OracleDocs(llm_output, ts) \o JiraDocs(tickets, ts) \o UsageDocs(llm_output, usage, ts)

\* longest oracle text of the chunker, in segments
MaxSegments == 2

Segments ==
    {Section("CLIENT OVERVIEW", NameA, 51), Section("CLIENT OVERVIEW", NameA, 50),
     Section("CLIENT OVERVIEW", NameLowerA, 51), Section("BUGS AFFECTING", NameAB, 30),
     Section("NOTE", NameA, 51),
     LegacyBlock(NameA, TRUE), LegacyBlock(NameList, TRUE), LegacyBlock(NameA, FALSE),
     OtherText(30)}

\* the oracle texts explored when the chunker is called on its own
AllRagReplies == SeqsUpTo(Segments, MaxSegments)

\* the oracle texts explored in a whole run
RagReplies ==
    {<<Section("CLIENT OVERVIEW", NameA, 51), Section("BUGS AFFECTING", NameAB, 30)>>,
     <<Section("CLIENT OVERVIEW", NameA, 51), Section("WEEKLY USAGE", NameA, 51)>>,
     <<OtherText(30), LegacyBlock(NameA, TRUE)>>,
     <<>>}

TimeStamps == {"t1", "t2"}

(***************************************************************************)
(* core/data_loader.py: simplify_jira_tickets on the tickets of the tracker *)
(***************************************************************************)
\* A raw ticket is a decoded JSON value; a text is a sequence of words,
\* spaces, newlines, colons and parentheses.

\* None and the empty dict and list used as defaults
None == JLit("null")
EmptyObj == JObj(<<>>)
EmptyArr == JArr(<<>>)

\* the outcome of a call: the value returned, or an exception
Returns(v) == [ok |-> TRUE, v |-> v]
Raises == [ok |-> FALSE]

\* the elements a for loop visits: those of a list, the characters of a str,
\* the keys of a dict; Raises for a value that is not iterable
RECURSIVE KeysOf(_)
KeysOf(o) ==
    IF DOMAIN o = {} THEN <<>>
    ELSE LET k == CHOOSE k \in DOMAIN o : TRUE
         IN  <<JStr(k)>> \o KeysOf([x \in DOMAIN o \ {k} |-> o[x]])

Elements(v) ==
    CASE v.t = "arr" -> Returns(v.a)
      [] v.t = "str" -> Returns([i \in 1..Len(v.s) |-> JStr(<<v.s[i]>>)])
      [] v.t = "obj" -> Returns(KeysOf(v.o))
      [] OTHER -> Raises

\* " ".join(parts)
RECURSIVE JoinWithSpace(_)
JoinWithSpace(parts) ==
    IF Len(parts) = 0 THEN <<>>
    ELSE IF Len(parts) = 1 THEN parts[1].s
    ELSE parts[1].s \o <<SP>> \o JoinWithSpace(Tail(parts))

\* the inner loop of extract_ticket_text over the items of one paragraph
RECURSIVE ItemTexts(_)
ItemTexts(items) ==
    IF Len(items) = 0 THEN Returns(<<>>)
    ELSE LET item == Head(items)
             rest == ItemTexts(Tail(items))
         IN  IF item.t # "obj" \/ ~rest.ok THEN Raises
             ELSE IF Get(item.o, <<"type">>, None) = JStr(<<"text">>)
                  THEN Returns(<<Get(item.o, <<"text">>, JStr(<<>>))>> \o rest.v)
                  ELSE rest

\* the outer loop of extract_ticket_text over the blocks of the description
RECURSIVE BlockTexts(_)
BlockTexts(blocks) ==
    IF Len(blocks) = 0 THEN Returns(<<>>)
    ELSE LET block == Head(blocks)
             rest == BlockTexts(Tail(blocks))
         IN  IF block.t # "obj" \/ ~rest.ok THEN Raises
             ELSE IF Get(block.o, <<"type">>, None) = JStr(<<"paragraph">>)
                  THEN LET items == Elements(Get(block.o, <<"content">>, EmptyArr))
                       IN  IF ~items.ok THEN Raises
                           ELSE IF ~ItemTexts(items.v).ok THEN Raises
                           ELSE Returns(ItemTexts(items.v).v \o rest.v)
                  ELSE rest

\* extract_ticket_text: the texts of the paragraphs joined by spaces; "" for a
\* description that is empty or not a dict
extract_ticket_text(description) ==
    IF ~Truthy(description) \/ description.t # "obj" THEN Returns(<<>>)
    ELSE LET blocks == Elements(Get(description.o, <<"content">>, EmptyArr))
         IN  IF ~blocks.ok THEN Raises
             ELSE LET parts == BlockTexts(blocks.v)
                  IN  IF ~parts.ok THEN Raises
                      ELSE IF \E i \in 1..Len(parts.v) : parts.v[i].t # "str" THEN Raises
                      ELSE Returns(JoinWithSpace(parts.v))

\* re.search(r'<label>:\s*([^\n]+)', text, re.IGNORECASE): group(1).strip() of
\* the first match, "" when there is none
ExtractLabelled(label, text) ==
    LET starts == {i \in 1..(Len(text) - 1) : LowerWord(text[i]) = label /\ text[i + 1] = ":"}
    IN  IF starts = {} THEN <<>>
        ELSE LET i == Min(starts)
                 rest == SubSeq(text, i + 2, Len(text))
                 value == lstrip(rest)
                 line == IF find(value, NL) = 0 THEN value
                         ELSE SubSeq(value, 1, find(value, NL) - 1)
             IN  strip(line)

extract_client_from_description(description_text) ==
    ExtractLabelled("client", description_text)

extract_module_from_description(description_text) ==
    ExtractLabelled("module", description_text)

\* re.search(r'\(([^)]+)\)\s*$', summary): <<group(1)>> of the leftmost match,
\* <<>> when there is none
SummaryMatch(summary) ==
    LET body == rstrip(summary)
        r == Len(body)
    IN  IF r = 0 \/ body[r] # ")" THEN <<>>
        ELSE LET closers == {q \in 1..(r - 1) : body[q] = ")"}
                 q == IF closers = {} THEN 0 ELSE CHOOSE x \in closers : \A y \in closers : y <= x
                 openers == {l \in (q + 1)..(r - 2) : body[l] = "("}
             IN  IF openers = {} THEN <<>>
                 ELSE <<SubSeq(body, Min(openers) + 1, r - 1)>>

\* the client of a ticket without the final default
ResolveClient_SummaryFirst(custom, description_text, summary) ==
    LET m == SummaryMatch(summary.s)
    IN  IF summary.t = "str" /\ m # <<>> /\ strip(m[1]) # <<>> THEN Returns(JStr(strip(m[1])))
        ELSE IF Truthy(custom) /\ custom # JStr(<<"Unknown">>) THEN Returns(custom)
        ELSE Returns(JStr(extract_client_from_description(description_text)))

\* the client of a ticket before the final default: the custom field, else
\* the description, else the summary; Raises when the summary is searched and
\* is not a str
ResolveClient(custom, description_text, summary) ==
    LET c1 == IF ~Truthy(custom) \/ custom = JStr(<<"Unknown">>)
              THEN JStr(extract_client_from_description(description_text))
              ELSE custom
    IN  IF Truthy(c1) THEN Returns(c1)
        ELSE IF summary.t # "str" THEN Raises
        ELSE IF SummaryMatch(summary.s) # <<>>
             THEN Returns(JStr(strip(SummaryMatch(summary.s)[1])))
             ELSE Returns(c1)

\* the default kept out
DefaultClient_None(client_name) == client_name

\* if not client_name: client_name = "Unknown"
DefaultClient(client_name) == IF Truthy(client_name) THEN client_name ELSE JStr(<<"Unknown">>)

\* module = labels[0] when the description names no module and labels is truthy
FirstLabel(labels) ==
    CASE labels.t = "arr" -> Returns(labels.a[1])
      [] labels.t = "str" -> Returns(JStr(<<labels.s[1]>>))
      [] OTHER -> Raises

\* fields.get(key, {}).get("name", "Unknown")
NameOf(fields, key) ==
    LET v == Get(fields, key, EmptyObj)
    IN  IF v.t # "obj" THEN Raises ELSE Returns(Get(v.o, <<"name">>, JStr(<<"Unknown">>)))

\* extract_affected_modules: the "value" of the dicts of customfield_10370
RECURSIVE ModuleValues(_)
ModuleValues(items) ==
    IF Len(items) = 0 THEN <<>>
    ELSE (IF Head(items).t = "obj" /\ <<"value">> \in DOMAIN Head(items).o
          THEN <<Head(items).o[<<"value">>]>> ELSE <<>>) \o ModuleValues(Tail(items))

extract_affected_modules(fields) ==
    LET custom_field == Get(fields, <<"customfield_10370">>, EmptyArr)
    IN  IF ~Truthy(custom_field) THEN Returns(<<>>)
        ELSE IF ~Elements(custom_field).ok THEN Raises
        ELSE Returns(ModuleValues(Elements(custom_field).v))

\* the body of the loop of simplify_jira_tickets for one ticket
SimplifyTicket(ticket) ==
    IF ticket.t # "obj" THEN Raises
    ELSE LET fields == Get(ticket.o, <<"fields">>, EmptyObj)
         IN  IF fields.t # "obj" THEN Raises
             ELSE LET text == extract_ticket_text(Get(fields.o, <<"description">>, EmptyObj))
                      summary == Get(fields.o, <<"summary">>, JStr(<<>>))
                      labels == Get(fields.o, <<"labels">>, EmptyArr)
                  IN  IF ~text.ok THEN Raises
                      ELSE LET client == ResolveClient(Get(fields.o, <<"customfield_10159">>, JStr(<<>>)),
                                                       text.v, summary)
                               module == extract_module_from_description(text.v)
                               label == IF module = <<>> /\ Truthy(labels)
                                        THEN FirstLabel(labels) ELSE Returns(JStr(module))
                               priority == NameOf(fields.o, <<"priority">>)
                               status == NameOf(fields.o, <<"status">>)
                               modules == extract_affected_modules(fields.o)
                           IN  IF ~client.ok \/ ~label.ok \/ ~priority.ok \/ ~status.ok \/ ~modules.ok
                               THEN Raises
                               ELSE Returns([key |-> Get(ticket.o, <<"key">>, JStr(<<>>)),
                                             id |-> Get(ticket.o, <<"id">>, JStr(<<>>)),
                                             client_name |-> DefaultClient(client.v),
                                             summary |-> summary,
                                             description |-> JStr(text.v),
                                             priority |-> priority.v,
                                             status |-> status.v,
                                             created |-> Get(fields.o, <<"created">>, JStr(<<>>)),
                                             updated |-> Get(fields.o, <<"updated">>, JStr(<<>>)),
                                             affected_module |-> label.v,
                                             affected_modules |-> modules.v,
                                             labels |-> labels])

(***************************************************************************)
(* State                                                                   *)
(***************************************************************************)
\* an entry of usage_data: its client_name, whether its usage is a list, its
\* representatives and the weeks of its usage, each a list of activities
UsageOf(client, usage, reps, weeks) ==
    [client_name |-> client, usage |-> usage, client_representatives |-> reps, weeks |-> weeks]

\* an entry without representatives and without weeks
Usage(client, usage) == UsageOf(client, usage, <<>>, <<>>)

Representative(full_name, email) == [full_name |-> full_name, email |-> email]
Activity(name, count) == [name |-> name, count |-> count]

UsageInputs ==
    {<<Usage(NameA, "list")>>,
     <<Usage(NameA, "list"), Usage(NameAB, "list")>>,
     <<Usage(NameA, "null")>>,
     <<UsageOf(NameA, "list", <<Representative(<<"R1">>, <<"r1@x">>)>>,
               <<<<Activity("m1", 2), Activity("m2", 3)>>, <<Activity("m1", 1)>>>>),
       Usage(NameAB, "list")>>}

JiraInputs ==
    {<<>>,
     <<Ticket("T1", NameA, <<>>, <<>>)>>,
     <<Ticket("T1", NameA, <<>>, <<>>), Ticket("T2", Unknown, <<>>, NameA)>>,
     <<Ticket("T1", NameAB, <<>>, <<>>), Ticket("T2", <<>>, NameA_B, <<>>)>>,
     <<Ticket("T1", NameA, <<>>, <<>>), Ticket("T2", NameAB, <<>>, <<>>),
       Ticket("T3", <<>>, NameA, <<>>)>>,
     <<Ticket("T1", <<>>, <<>>, <<>>)>>}

\* the inputs explored in a whole run
WorkflowUsageInputs == {<<Usage(NameA, "list"), Usage(NameAB, "list")>>, <<Usage(NameA, "null")>>}
WorkflowJiraInputs == {<<>>, <<Ticket("T1", NameA, <<>>, <<>>)>>}

\* the tickets given to simplify_jira_tickets when it is called on its own
TextItem(text) == JObj(<<"type">> :> JStr(<<"text">>) @@ <<"text">> :> JStr(text))
Paragraph(items) == JObj(<<"type">> :> JStr(<<"paragraph">>) @@ <<"content">> :> JArr(items))
Description(text) ==
    JObj(<<"type">> :> JStr(<<"doc">>) @@ <<"content">> :> JArr(<<Paragraph(<<TextItem(text)>>)>>))
RawTicket(key, fields) == JObj(<<"key">> :> JStr(<<key>>) @@ <<"fields">> :> JObj(fields))
Named(name) == JObj(<<"name">> :> JStr(<<name>>))

ClientIsB == <<"Client", ":", SP, "B">>
SummaryWithA == <<"x", SP, "(", "A", ")">>

\* every tier names a client: A in the custom field, B in the description
TkCustom ==
    RawTicket("K1", <<"customfield_10159">> :> JStr(NameA)
                    @@ <<"description">> :> Description(ClientIsB)
                    @@ <<"summary">> :> JStr(<<"x", SP, "(", "B", ")">>)
                    @@ <<"priority">> :> Named("High") @@ <<"status">> :> Named("Open")
                    @@ <<"labels">> :> JArr(<<JStr(<<"l1">>)>>))
\* the custom field holds the placeholder
TkUnknownCustom ==
    RawTicket("K2", <<"customfield_10159">> :> JStr(Unknown)
                    @@ <<"description">> :> Description(ClientIsB \o <<NL, "Module", ":", SP, "M">>)
                    @@ <<"summary">> :> JStr(SummaryWithA))
TkDescription ==
    RawTicket("K3", <<"description">> :> Description(ClientIsB) @@ <<"summary">> :> JStr(SummaryWithA))
TkSummary ==
    RawTicket("K4", <<"description">> :> Description(<<"no", SP, "client">>)
                    @@ <<"summary">> :> JStr(SummaryWithA))
TkNoClient ==
    RawTicket("K5", <<"customfield_10159">> :> JStr(<<>>) @@ <<"summary">> :> JStr(<<"x">>))
\* the description and the summary match with a blank value
TkBlankMatches ==
    RawTicket("K6", <<"description">> :> Description(<<"Client", ":", SP, SP>>)
                    @@ <<"summary">> :> JStr(<<"x", SP, "(", SP, ")">>))
\* the description names the placeholder
TkDescriptionUnknown ==
    RawTicket("K7", <<"description">> :> Description(<<"Client", ":", SP, "Unknown">>)
                    @@ <<"summary">> :> JStr(SummaryWithA))
TkNoFields == JObj(<<"key">> :> JStr(<<"K8">>))
TkNullPriority ==
    RawTicket("K9", <<"summary">> :> JStr(SummaryWithA) @@ <<"priority">> :> None)
TkNullSummary == RawTicket("K10", <<"summary">> :> None)
TkNullSummaryCustom ==
    RawTicket("K11", <<"customfield_10159">> :> JStr(NameA) @@ <<"summary">> :> None)
\* a block of the description that is not a dict
TkBadBlock ==
    RawTicket("K12", <<"description">> :> JObj(<<"content">> :> JArr(<<JStr(<<"x">>)>>))
                     @@ <<"summary">> :> JStr(SummaryWithA))
TkNullDescription ==
    RawTicket("K13", <<"description">> :> None @@ <<"labels">> :> None
                     @@ <<"summary">> :> JStr(SummaryWithA))
\* a description that is a str
TkStringDescription ==
    RawTicket("K14", <<"description">> :> JStr(<<"Client", ":", SP, "A">>))

RawTickets ==
    {TkCustom, TkUnknownCustom, TkDescription, TkSummary, TkNoClient, TkBlankMatches,
     TkDescriptionUnknown, TkNoFields, TkNullPriority, TkNullSummary, TkNullSummaryCustom,
     TkBadBlock, TkNullDescription, TkStringDescription}

\* longest list of raw tickets
MaxTickets == 2

TicketInputs == SeqsUpTo(RawTickets, MaxTickets)

VARIABLES
    usage_data,      \* the arguments of run_retention_analysis
    jira_tickets,
    oracle_reply,    \* the text the oracle gives the Risk Classifier when it answers
    rag_reply,       \* the text the oracle gives the Knowledge Chunker when it answers
    timestamp,       \* datetime.now() as parse_llm_text_to_documents formats it
    step,            \* where app.invoke is: "init", "step1", "step2", "done", "failed"
    state,           \* the result bag (the channels of the graph)
    result,          \* <<bag>> once run_retention_analysis has returned it
    pcA,             \* position of the analysis task
    raw_response,    \* analysis_agent: response.content
    clean_result,    \* parse_llm_response: locals
    json_str,
    tried,           \* the parsing states attempted so far, with their outcome
    parsed,          \* <<value>> once parse_llm_response has returned
    debug_file,      \* debug_llm_response.txt: <<content>> once written
    debug_io,        \* the write of the debug file: "none", "written", "error"
    analysis_out,    \* the dict analysis_agent returned
    route,           \* the value should_send_emails returned, "" before
    finished,        \* the tasks of the first step in the order they completed
    pcR,             \* position of the rag_prep task
    rag_out,         \* the dict rag_prep_agent returned
    rag_text,        \* rag_prep_agent: llm_text_output
    documents,       \* rag_prep_agent: documents
    rag_fault,       \* the step of rag_prep_agent that raised, "none" otherwise
    collection,      \* the set of ids held by the vector store
    deleted,         \* delete_all: the number of ids it deleted in this call, 0 before
    pcE,             \* position of the email task
    email_out,       \* the dict email_agent returned
    raw_tickets,     \* the argument of simplify_jira_tickets called on its own
    simplified,      \* simplify_jira_tickets: the records appended so far
    pcT,             \* position of simplify_jira_tickets: "idle", "loop", "returned", "raised"
    api_key,         \* main: GOOGLE_API_KEY is set
    usage_file,      \* main: the usage data file exists
    pcM,             \* position of main: "start", "validated", "running", "stopped", "idle"
    last_documents   \* the documents built by the preceding call of rag_prep_agent

vars ==
    <<usage_data, jira_tickets, oracle_reply, rag_reply, timestamp, step, state, result, pcA,
      raw_response, clean_result, json_str, tried, parsed, debug_file, debug_io,
      analysis_out, route, finished, pcR, rag_out, rag_text, documents, rag_fault,
      collection, deleted, pcE, email_out, raw_tickets, simplified, pcT,
      api_key, usage_file, pcM, last_documents>>

inputVars == <<usage_data, jira_tickets, oracle_reply, rag_reply, timestamp>>
parseVars == <<raw_response, clean_result, json_str, tried, parsed, debug_file, debug_io>>
analysisVars == <<pcA, parseVars, analysis_out, route>>

ragVars == <<pcR, rag_out, rag_text, documents, rag_fault, collection, deleted>>
emailVars == <<pcE, email_out>>
ticketVars == <<raw_tickets, simplified, pcT>>
mainVars == <<api_key, usage_file, pcM>>
callerVars == <<last_documents>>
runVars == <<step, state, result>>
\* left alone by a step of parse_llm_response
parseFrame == <<inputVars, ticketVars, mainVars, callerVars, runVars, raw_response, analysis_out, route, finished, ragVars,
                pcE, email_out>>

Tried(st, ok) == [state |-> st, ok |-> ok]

InitCommon ==
    /\ state = EmptyDict
    /\ result = <<>>
    /\ raw_response = <<>>
    /\ clean_result = <<>>
    /\ json_str = <<>>
    /\ tried = <<>>
    /\ parsed = <<>>
    /\ debug_file = <<>>
    /\ debug_io = "none"
    /\ finished = <<>>
    /\ analysis_out = EmptyDict
    /\ route = ""
    /\ rag_out = EmptyDict
    /\ rag_text = <<>>
    /\ documents = <<>>
    /\ rag_fault = "none"
    /\ deleted = 0
    /\ pcE = "idle"
    /\ email_out = EmptyDict
    /\ simplified = <<>>
    /\ last_documents = <<>>

Init ==
    /\ InitCommon
    /\ api_key = TRUE
    /\ usage_file = TRUE
    /\ pcM = "running"
    /\ raw_tickets = <<>>
    /\ pcT = "idle"
    /\ usage_data \in WorkflowUsageInputs
    /\ jira_tickets \in WorkflowJiraInputs
    /\ rag_reply \in RagReplies
    /\ timestamp = "t1"
    /\ collection \in {{}, {<<"old">>}}
    /\ oracle_reply \in WorkflowResponses
    /\ step = "init"
    /\ pcA = "idle"
    /\ pcR = "idle"

(***************************************************************************)
(* run_retention_analysis: app.invoke(initial_state)                       *)
(***************************************************************************)
\* the bag run_retention_analysis hands to app.invoke
initial_state ==
    [usage_data |-> usage_data, jira_tickets |-> jira_tickets,
     workflow_status |-> "started", errors |-> <<>>]

\* START -> analysis and START -> rag_prep: both tasks of the first step start
Invoke ==
    /\ step = "init"
    /\ step' = "step1"
    /\ state' = initial_state
    /\ pcA' = "call"
    /\ pcR' = "call"
    /\ UNCHANGED <<inputVars, ticketVars, mainVars, callerVars, result, parseVars, analysis_out, route, finished, rag_out,
                   rag_text, documents, rag_fault, collection, deleted, emailVars>>

(***************************************************************************)
(* analysis_agent                                                          *)
(***************************************************************************)
\* a failure of the oracle call turned into the failure dict
InvokeOracle_CatchesFailure ==
    /\ pcA = "call"
    /\ \E answered \in BOOLEAN :
          IF answered
          THEN /\ raw_response' = oracle_reply
               /\ pcA' = "clean"
               /\ analysis_out' = analysis_out
          ELSE /\ raw_response' = raw_response
               /\ pcA' = "route"
               /\ analysis_out' = [analysis_results |-> <<>>, risky_clients |-> <<>>,
                                   raw_llm_response |-> <<>>,
                                   errors |-> <<"Failed to parse analysis response">>]
    /\ UNCHANGED <<inputVars, ticketVars, mainVars, callerVars, runVars, clean_result, json_str, tried, parsed, debug_file,
                   debug_io, route, finished, ragVars, emailVars>>

\* response = llm.invoke(messages): the oracle answers, or the call raises
InvokeOracle ==
    /\ pcA = "call"
    /\ \E answered \in BOOLEAN :
          IF answered
          THEN /\ raw_response' = oracle_reply
               /\ pcA' = "clean"
          ELSE /\ raw_response' = raw_response
               /\ pcA' = "raised"
    /\ UNCHANGED <<inputVars, ticketVars, mainVars, callerVars, runVars, clean_result, json_str, tried, parsed, debug_file,
                   debug_io, analysis_out, route, finished, ragVars, emailVars>>

\* parse_llm_response, up to the search for the array
StripFence ==
    /\ pcA = "clean"
    /\ clean_result' = CleanResult(raw_response)
    /\ IF HasSpan(CleanResult(raw_response))
       THEN /\ json_str' = JsonStr(CleanResult(raw_response))
            /\ pcA' = "direct"
       ELSE /\ json_str' = json_str
            /\ pcA' = "whole"
    /\ UNCHANGED <<parseFrame, tried, parsed, debug_file, debug_io>>

\* State A falling through to the repair after a successful decode
DirectParse_ContinuesAfterSuccess ==
    /\ pcA = "direct"
    /\ LET r == json_loads(json_str)
       IN  /\ tried' = Append(tried, Tried("A", r.ok))
           /\ parsed' = IF r.ok THEN <<r.v>> ELSE parsed
           /\ pcA' = "repair"
    /\ UNCHANGED <<parseFrame, clean_result, json_str, debug_file, debug_io>>

\* State A: json.loads(json_str)
DirectParse ==
    /\ pcA = "direct"
    /\ LET r == json_loads(json_str)
       IN  /\ tried' = Append(tried, Tried("A", r.ok))
           /\ IF r.ok
              THEN parsed' = <<r.v>> /\ pcA' = "filter"
              ELSE parsed' = parsed /\ pcA' = "repair"
    /\ UNCHANGED <<parseFrame, clean_result, json_str, debug_file, debug_io>>

\* State B: json.loads(fixed_json)
RepairParse ==
    /\ pcA = "repair"
    /\ LET r == json_loads(FixedJson(json_str))
       IN  /\ tried' = Append(tried, Tried("B", r.ok))
           /\ IF r.ok
              THEN parsed' = <<r.v>> /\ pcA' = "filter"
              ELSE parsed' = parsed /\ pcA' = "salvage"
    /\ UNCHANGED <<parseFrame, clean_result, json_str, debug_file, debug_io>>

\* State C: the objects found in json_str one by one
SalvageParse ==
    /\ pcA = "salvage"
    /\ LET objects == SalvagedObjects(json_str)
       IN  /\ tried' = Append(tried, Tried("C", Len(objects) > 0))
           /\ IF Len(objects) > 0
              THEN parsed' = <<JArr(objects)>> /\ pcA' = "filter"
              ELSE parsed' = parsed /\ pcA' = "whole"
    /\ UNCHANGED <<parseFrame, clean_result, json_str, debug_file, debug_io>>

\* return json.loads(clean_result)
WholeTextParse ==
    /\ pcA = "whole"
    /\ LET r == json_loads(clean_result)
       IN  /\ tried' = Append(tried, Tried("W", r.ok))
           /\ IF r.ok
              THEN parsed' = <<r.v>> /\ pcA' = "filter"
              ELSE parsed' = parsed /\ pcA' = "except"
    /\ UNCHANGED <<parseFrame, clean_result, json_str, debug_file, debug_io>>

\* the except branch without the write of the debug file
ParseFailure_NoWrite ==
    /\ pcA = "except"
    /\ parsed' = <<JArr(<<>>)>>
    /\ pcA' = "filter"
    /\ UNCHANGED <<parseFrame, clean_result, json_str, tried, debug_file, debug_io>>

\* except json.JSONDecodeError: write the raw response (an error of the write
\* is swallowed), return []
ParseFailure ==
    /\ pcA = "except"
    /\ \E written \in BOOLEAN :
          /\ debug_file' = IF written THEN <<raw_response>> ELSE debug_file
          /\ debug_io' = IF written THEN "written" ELSE "error"
    /\ parsed' = <<JArr(<<>>)>>
    /\ pcA' = "filter"
    /\ UNCHANGED <<parseFrame, clean_result, json_str, tried>>

\* the early return writing a key of the Knowledge Chunker as well
AnalysisFailureReturn_WithRagKey(raw) ==
    [analysis_results |-> <<>>, risky_clients |-> <<>>, raw_llm_response |-> raw,
     rag_ready |-> FALSE, errors |-> <<"Failed to parse analysis response">>]

\* the dict of the early return
AnalysisFailureReturn(raw) ==
    [analysis_results |-> <<>>, risky_clients |-> <<>>, raw_llm_response |-> raw,
     errors |-> <<"Failed to parse analysis response">>]

\* the final return handing back an input key as well
AnalysisSuccessReturn_WritesInput(results, raw) ==
    [analysis_results |-> results, risky_clients |-> RiskyClients(results),
     raw_llm_response |-> raw, usage_data |-> <<>>]

\* the dict of the final return
AnalysisSuccessReturn(results, raw) ==
    [analysis_results |-> results, risky_clients |-> RiskyClients(results),
     raw_llm_response |-> raw]

\* the high and medium counts analysis_agent prints
PrintedHighRisk(results) == CountRisk(RiskyClients(results), HIGH)
PrintedMediumRisk(results) == CountRisk(RiskyClients(results), MEDIUM)

\* iterating analysis_results and filtering raises unless it is a list of
\* dicts whose risk_factor is a str or absent
AnalysisRaises(v) ==
    \/ v.t # "arr"
    \/ \E j \in 1..Len(v.a) : FilterRaises(v.a[j])

\* analysis_agent after parse_llm_response returned
AnalysisReturn ==
    /\ pcA = "filter"
    /\ LET v == parsed[1]
       IN  IF ~Truthy(v)
           THEN /\ analysis_out' = AnalysisFailureReturn(raw_response)
                /\ pcA' = "route"
           ELSE IF AnalysisRaises(v)
           THEN /\ analysis_out' = analysis_out
                /\ pcA' = "raised"
           ELSE /\ analysis_out' = AnalysisSuccessReturn(v.a, raw_response)
                /\ pcA' = "route"
    /\ UNCHANGED <<inputVars, ticketVars, mainVars, callerVars, runVars, parseVars, route, finished, ragVars, emailVars>>

(***************************************************************************)
(* should_send_emails, evaluated when the analysis node has returned        *)
(***************************************************************************)
\* the router reading analysis_results instead of risky_clients
should_send_emails_AnyResult(bag) ==
    IF Len(Get(bag, "analysis_results", <<>>)) > 0 THEN "send_emails" ELSE "skip_emails"

should_send_emails(bag) ==
    IF Len(Get(bag, "risky_clients", <<>>)) > 0 THEN "send_emails" ELSE "skip_emails"

\* the counts the router prints
RouterHighCount(bag) == CountRisk(Get(bag, "risky_clients", <<>>), HIGH)
RouterMediumCount(bag) == Len(Get(bag, "risky_clients", <<>>)) - RouterHighCount(bag)

\* the conditional edge reads the bag together with the update of its node
RouteDecision ==
    /\ pcA = "route"
    /\ route' = should_send_emails(ApplyWrites(state, analysis_out))
    /\ pcA' = "done"
    /\ finished' = Append(finished, "analysis")
    /\ UNCHANGED <<inputVars, ticketVars, mainVars, callerVars, runVars, parseVars, analysis_out, ragVars, emailVars>>

(***************************************************************************)
(* rag_prep_agent                                                          *)
(***************************************************************************)
\* the failure dict without its error entry
RagFailureReturn_NoErrors(cause) ==
    [rag_documents |-> <<>>, rag_text |-> <<>>, rag_ready |-> FALSE]

RagFailureReturn(cause) ==
    [rag_documents |-> <<>>, rag_text |-> <<>>, rag_ready |-> FALSE,
     errors |-> <<"RAG Agent Error: " \o cause>>]

RagSuccessReturn(docs, text) ==
    [rag_documents |-> docs, rag_text |-> text, rag_ready |-> TRUE]

\* the exception leaving rag_prep_agent
RagExcept_Propagates(cause) ==
    /\ rag_out' = rag_out
    /\ rag_fault' = cause
    /\ pcR' = "raised"
    /\ finished' = finished

\* except Exception as e: the failure dict is returned
RagExcept(cause) ==
    /\ rag_out' = RagFailureReturn(cause)
    /\ rag_fault' = cause
    /\ pcR' = "done"
    /\ finished' = Append(finished, "rag_prep")

\* Step 1: convert_json_to_text_with_llm; llm.invoke answers or raises
RagInvokeOracle ==
    /\ pcR = "call"
    /\ \E answered \in BOOLEAN :
          IF answered
          THEN /\ rag_text' = rag_reply
               /\ pcR' = "parse"
               /\ UNCHANGED <<rag_out, rag_fault, finished>>
          ELSE /\ RagExcept("oracle")
               /\ rag_text' = rag_text
    /\ UNCHANGED <<inputVars, ticketVars, mainVars, callerVars, runVars, analysisVars, documents, collection, deleted, emailVars>>

\* Step 2: parse_llm_text_to_documents
RagParseDocuments ==
    /\ pcR = "parse"
    /\ IF ParseRaises(usage_data)
       THEN /\ RagExcept("parse")
            /\ documents' = documents
       ELSE /\ documents' = parse_llm_text_to_documents(rag_text, usage_data, jira_tickets, timestamp)
            /\ pcR' = "store"
            /\ UNCHANGED <<rag_out, rag_fault, finished>>
    /\ UNCHANGED <<inputVars, ticketVars, mainVars, callerVars, runVars, analysisVars, rag_text, collection, deleted, emailVars>>

\* Step 3, store_in_chromadb: get_vector_store() opens the store or raises
RagGetStore ==
    /\ pcR = "store"
    /\ \E opened \in BOOLEAN :
          IF opened
          THEN /\ pcR' = "clear"
               /\ UNCHANGED <<rag_out, rag_fault, finished>>
          ELSE RagExcept("store")
    /\ UNCHANGED <<inputVars, ticketVars, mainVars, callerVars, runVars, analysisVars, rag_text, documents, collection, deleted,
                   emailVars>>

\* the store step without the purge
RagClearStore_NoPurge ==
    /\ pcR = "clear"
    /\ pcR' = "add"
    /\ UNCHANGED <<rag_out, rag_fault, finished, collection, deleted>>
    /\ UNCHANGED <<inputVars, ticketVars, mainVars, callerVars, runVars, analysisVars, rag_text, documents, emailVars>>

\* if store.count() > 0: store.delete_all()
RagClearStore ==
    /\ pcR = "clear"
    /\ IF collection = {}
       THEN /\ pcR' = "add"
            /\ UNCHANGED <<rag_out, rag_fault, finished, collection, deleted>>
       ELSE \E done \in BOOLEAN :
               IF done
               THEN /\ collection' = {}
                    /\ deleted' = Cardinality(collection)
                    /\ pcR' = "add"
                    /\ UNCHANGED <<rag_out, rag_fault, finished>>
               ELSE /\ RagExcept("delete")
                    /\ UNCHANGED <<collection, deleted>>
    /\ UNCHANGED <<inputVars, ticketVars, mainVars, callerVars, runVars, analysisVars, rag_text, documents, emailVars>>

DocIds(docs) == [j \in 1..Len(docs) |-> docs[j].id]

\* collection.add rejects a list of ids that holds the same id twice
DuplicateIds(docs) == \E i, j \in 1..Len(docs) : i # j /\ docs[i].id = docs[j].id

\* store.add_documents(documents), then the return of rag_prep_agent
RagAddDocuments ==
    /\ pcR = "add"
    /\ IF DuplicateIds(documents)
       THEN /\ RagExcept("duplicate")
            /\ collection' = collection
       ELSE \E embedded \in BOOLEAN :
               IF embedded
               THEN /\ collection' = collection \cup {documents[j].id : j \in 1..Len(documents)}
                    /\ rag_out' = RagSuccessReturn(documents, rag_text)
                    /\ rag_fault' = rag_fault
                    /\ pcR' = "done"
                    /\ finished' = Append(finished, "rag_prep")
               ELSE /\ RagExcept("embed")
                    /\ collection' = collection
    /\ UNCHANGED <<inputVars, ticketVars, mainVars, callerVars, runVars, analysisVars, rag_text, documents, deleted, emailVars>>

RagPrepAgent ==
    \/ RagInvokeOracle
    \/ RagParseDocuments
    \/ RagGetStore
    \/ RagClearStore
    \/ RagAddDocuments

(***************************************************************************)
(* email_agent                                                             *)
(***************************************************************************)
\* send_all_client_engagement_emails takes risky_clients[1]: IndexError when
\* the list has one element
EngagementRaises(results) == Len(RiskyClients(results)) = 1

EngagementResults(results, outcome) ==
    IF Len(RiskyClients(results)) = 0
    THEN [sent |-> <<>>, skipped |-> <<>>, failed |-> <<>>]
    ELSE LET client == RiskyClients(results)[2]
         IN  [sent |-> IF outcome = "sent" THEN <<client>> ELSE <<>>,
              skipped |-> IF outcome = "skipped" THEN <<client>> ELSE <<>>,
              failed |-> IF outcome = "failed" THEN <<client>> ELSE <<>>]

Priority(high_risk, medium_risk) ==
    IF high_risk > 0 THEN "high" ELSE IF medium_risk > 0 THEN "normal" ELSE "low"

\* the subject of the report, without the count formatted into it
Subject(high_risk, medium_risk) ==
    IF high_risk > 0 THEN "Retention Alert: High Risk Clients Detected"
    ELSE IF medium_risk > 0 THEN "Retention Report: Clients Need Attention"
    ELSE "Retention Report: All Clients Healthy"

EmailAgent ==
    /\ pcE = "call"
    /\ LET results == Get(state, "analysis_results", <<>>)
           high_risk == CountRisk(results, HIGH)
           medium_risk == CountRisk(results, MEDIUM)
           low_risk == CountRisk(results, LOW)
       IN  IF Len(results) = 0
           THEN /\ email_out' = [emails_to_send |-> <<>>,
                                 email_summary |-> "No analysis results available.",
                                 emails_generated |-> FALSE]
                /\ pcE' = "done"
           ELSE \E smtp \in {"unconfigured", "failed", "ok"}, receiver \in BOOLEAN,
                   templates \in BOOLEAN, report_sent \in BOOLEAN,
                   outcome \in {"sent", "skipped", "failed"} :
                   LET email == [subject |-> Subject(high_risk, medium_risk),
                                 priority |-> Priority(high_risk, medium_risk),
                                 high_risk |-> high_risk,
                                 medium_risk |-> medium_risk,
                                 low_risk |-> low_risk,
                                 sent |-> smtp = "ok" /\ receiver /\ report_sent]
                       engage == templates /\ receiver /\ smtp = "ok"
                   IN  IF engage /\ EngagementRaises(results)
                       THEN /\ email_out' = email_out
                            /\ pcE' = "raised"
                       ELSE /\ email_out' =
                                  [emails_to_send |-> <<email>>,
                                   client_engagement_results |->
                                       IF engage THEN EngagementResults(results, outcome)
                                       ELSE [sent |-> <<>>, skipped |-> <<>>, failed |-> <<>>],
                                   email_summary |-> Priority(high_risk, medium_risk),
                                   emails_generated |-> TRUE]
                            /\ pcE' = "done"
    /\ UNCHANGED <<inputVars, ticketVars, mainVars, callerVars, runVars, analysisVars, finished, ragVars>>

(***************************************************************************)
(* The steps of the graph                                                  *)
(***************************************************************************)
\* the first step ending as soon as the analysis task has returned
MergeStep1_NoJoin ==
    /\ step = "step1"
    /\ pcA = "done"
    /\ LET merged == ApplyWrites(ApplyWrites(state, analysis_out), rag_out)
       IN  /\ state' = merged
           /\ IF route = "send_emails"
              THEN /\ step' = "step2"
                   /\ pcE' = "call"
                   /\ result' = result
              ELSE /\ step' = "done"
                   /\ pcE' = pcE
                   /\ result' = <<merged>>
    /\ UNCHANGED <<inputVars, ticketVars, mainVars, callerVars, analysisVars, finished, ragVars, email_out>>

\* both tasks of the first step have returned: their updates are applied in
\* the order of the tasks, then "email" is scheduled or the run ends
MergeStep1 ==
    /\ step = "step1"
    /\ pcA = "done"
    /\ pcR = "done"
    /\ LET merged == ApplyWrites(ApplyWrites(state, analysis_out), rag_out)
       IN  /\ state' = merged
           /\ IF route = "send_emails"
              THEN /\ step' = "step2"
                   /\ pcE' = "call"
                   /\ result' = result
              ELSE /\ step' = "done"
                   /\ pcE' = pcE
                   /\ result' = <<merged>>
    /\ UNCHANGED <<inputVars, ticketVars, mainVars, callerVars, analysisVars, finished, ragVars, email_out>>

\* the run returning the bag of the last step without the updates of email
MergeStep2_ReturnsUnmerged ==
    /\ step = "step2"
    /\ pcE = "done"
    /\ state' = ApplyWrites(state, email_out)
    /\ step' = "done"
    /\ result' = <<state>>
    /\ UNCHANGED <<inputVars, ticketVars, mainVars, callerVars, analysisVars, finished, ragVars, emailVars>>

\* email -> END
MergeStep2 ==
    /\ step = "step2"
    /\ pcE = "done"
    /\ state' = ApplyWrites(state, email_out)
    /\ step' = "done"
    /\ result' = <<ApplyWrites(state, email_out)>>
    /\ UNCHANGED <<inputVars, ticketVars, mainVars, callerVars, analysisVars, finished, ragVars, emailVars>>

\* a node raised: the exception leaves app.invoke and run_retention_analysis
RunFails ==
    /\ \/ step = "step1" /\ pcA = "raised"
       \/ step = "step2" /\ pcE = "raised"
    /\ step' = "failed"
    /\ UNCHANGED <<inputVars, ticketVars, mainVars, callerVars, state, result, analysisVars, finished, ragVars, emailVars>>

AnalysisNext ==
    \/ InvokeOracle
    \/ StripFence
    \/ DirectParse
    \/ RepairParse
    \/ SalvageParse
    \/ WholeTextParse
    \/ ParseFailure
    \/ AnalysisReturn

Next ==
    \/ Invoke
    \/ AnalysisNext
    \/ RouteDecision
    \/ RagPrepAgent
    \/ MergeStep1
    \/ EmailAgent
    \/ MergeStep2
    \/ RunFails

Spec == Init /\ [][Next]_vars

(***************************************************************************)
(* analysis_agent called on its own, over the full family of responses     *)
(***************************************************************************)
ParseInit ==
    /\ InitCommon
    /\ api_key = TRUE
    /\ usage_file = TRUE
    /\ pcM = "idle"
    /\ raw_tickets = <<>>
    /\ pcT = "idle"
    /\ usage_data = <<Usage(NameA, "list")>>
    /\ jira_tickets = <<>>
    /\ rag_reply = <<>>
    /\ timestamp = "t1"
    /\ collection = {}
    /\ oracle_reply \in AllResponses
    /\ step = "unit"
    /\ pcA = "call"
    /\ pcR = "idle"

ParseSpec == ParseInit /\ [][AnalysisNext]_vars

(***************************************************************************)
(* rag_prep_agent called on its own, run after run on the same store       *)
(***************************************************************************)
ChunkInit ==
    /\ InitCommon
    /\ api_key = TRUE
    /\ usage_file = TRUE
    /\ pcM = "idle"
    /\ raw_tickets = <<>>
    /\ pcT = "idle"
    /\ usage_data \in UsageInputs
    /\ jira_tickets \in JiraInputs
    /\ rag_reply \in AllRagReplies
    /\ timestamp = "t1"
    /\ collection = {}
    /\ oracle_reply = <<>>
    /\ step = "unit"
    /\ pcA = "idle"
    /\ pcR = "call"

\* the next run: the same process and store, a later or the same second, a
\* new answer of the oracle
NextCall ==
    /\ step = "unit"
    /\ pcR = "done"
    /\ pcR' = "call"
    /\ rag_reply' \in RagReplies
    /\ timestamp' \in TimeStamps
    /\ rag_out' = EmptyDict
    /\ rag_text' = <<>>
    /\ documents' = <<>>
    /\ last_documents' = documents
    /\ rag_fault' = "none"
    /\ deleted' = 0
    /\ finished' = <<>>
    /\ UNCHANGED <<usage_data, jira_tickets, oracle_reply, runVars, analysisVars, collection,
                   emailVars, ticketVars, mainVars>>

ChunkNext ==
    \/ RagPrepAgent
    \/ NextCall

ChunkSpec == ChunkInit /\ [][ChunkNext]_vars

(***************************************************************************)
(* main: the checks made before run_retention_analysis is called           *)
(***************************************************************************)
MainInit ==
    /\ InitCommon
    /\ api_key \in BOOLEAN
    /\ usage_file \in BOOLEAN
    /\ pcM = "start"
    /\ raw_tickets = <<>>
    /\ pcT = "idle"
    /\ usage_data \in (IF usage_file THEN WorkflowUsageInputs ELSE {<<>>})
    /\ jira_tickets \in WorkflowJiraInputs
    /\ rag_reply \in RagReplies
    /\ timestamp = "t1"
    /\ collection = {}
    /\ oracle_reply \in WorkflowResponses
    /\ step = "main"
    /\ pcA = "idle"
    /\ pcR = "idle"

\* validate_setup always letting main go on
ValidateSetup_Continues ==
    /\ pcM = "start"
    /\ pcM' = "validated"
    /\ UNCHANGED <<inputVars, ticketVars, callerVars, api_key, usage_file, runVars, analysisVars, finished,
                   ragVars, emailVars>>

\* if not validate_setup(): return
ValidateSetup ==
    /\ pcM = "start"
    /\ pcM' = IF api_key THEN "validated" ELSE "stopped"
    /\ UNCHANGED <<inputVars, ticketVars, callerVars, api_key, usage_file, runVars, analysisVars, finished,
                   ragVars, emailVars>>

\* if not usage_path.exists(): return; else the files are loaded and
\* run_retention_analysis is called
LoadAndRun ==
    /\ pcM = "validated"
    /\ IF usage_file
       THEN pcM' = "running" /\ step' = "init"
       ELSE pcM' = "stopped" /\ step' = step
    /\ UNCHANGED <<inputVars, ticketVars, callerVars, api_key, usage_file, state, result, analysisVars,
                   finished, ragVars, emailVars>>

MainNext ==
    \/ ValidateSetup
    \/ LoadAndRun
    \/ Next

MainSpec == MainInit /\ [][MainNext]_vars

(***************************************************************************)
(* simplify_jira_tickets called on its own, over raw tickets                *)
(***************************************************************************)
TicketInit ==
    /\ InitCommon
    /\ api_key = TRUE
    /\ usage_file = TRUE
    /\ pcM = "idle"
    /\ raw_tickets \in TicketInputs
    /\ pcT = "loop"
    /\ usage_data = <<>>
    /\ jira_tickets = <<>>
    /\ oracle_reply = <<>>
    /\ rag_reply = <<>>
    /\ timestamp = "t1"
    /\ collection = {}
    /\ step = "unit"
    /\ pcA = "idle"
    /\ pcR = "idle"

\* one pass of the loop: the record of the next ticket is appended, or the
\* exception leaves simplify_jira_tickets
SimplifyNextTicket ==
    /\ pcT = "loop"
    /\ Len(simplified) < Len(raw_tickets)
    /\ LET outcome == SimplifyTicket(raw_tickets[Len(simplified) + 1])
       IN  IF outcome.ok
           THEN simplified' = Append(simplified, outcome.v) /\ pcT' = pcT
           ELSE simplified' = simplified /\ pcT' = "raised"
    /\ UNCHANGED <<inputVars, mainVars, callerVars, raw_tickets, runVars, analysisVars, finished, ragVars,
                   emailVars>>

\* return simplified
SimplifyReturn ==
    /\ pcT = "loop"
    /\ Len(simplified) = Len(raw_tickets)
    /\ pcT' = "returned"
    /\ UNCHANGED <<inputVars, mainVars, callerVars, raw_tickets, simplified, runVars, analysisVars, finished,
                   ragVars, emailVars>>

TicketNext ==
    \/ SimplifyNextTicket
    \/ SimplifyReturn

TicketSpec == TicketInit /\ [][TicketNext]_vars

\* the positions at which the analysis task can take a step
AnalysisRunning ==
    pcA \in {"call", "clean", "direct", "repair", "salvage", "whole", "except", "filter"}

\* WF_vars(AnalysisNext), with ENABLED <<AnalysisNext>>_vars written out as the
\* position of the task
AnalysisFairness == []<>~AnalysisRunning \/ []<><<AnalysisNext>>_vars

\* every task that can take a step eventually takes one, and so does the
\* loop of app.invoke
LiveSpec ==
    /\ Spec
    /\ WF_vars(Invoke)
    /\ AnalysisFairness
    /\ WF_vars(RouteDecision)
    /\ WF_vars(RagPrepAgent)
    /\ WF_vars(MergeStep1)
    /\ WF_vars(EmailAgent)
    /\ WF_vars(MergeStep2)
    /\ WF_vars(RunFails)

(***************************************************************************)
(* Properties                                                              *)
(***************************************************************************)
AnalysisReturned == pcA \in {"route", "done"}

\* the risk level of a record as the filter reads it
RiskLevel(c) == lower(Get(c.o, RISK_FACTOR, JStr(<<>>)).s)

RiskyIdx(results) == {i \in 1..Len(results) : RiskLevel(results[i]) \in {<<"high">>, <<"medium">>}}
LowIdx(results) == {i \in 1..Len(results) : RiskLevel(results[i]) = <<"low">>}
UnclassifiedIdx(results) ==
    {i \in 1..Len(results) : RiskLevel(results[i]) \notin {<<"high">>, <<"medium">>, <<"low">>}}

\* C1: when analysis_agent returns the records the parser gave it, all of them
\* are in analysis_results, and risky_clients is the sub-list, in the same
\* order, of the records whose risk_factor lowercased is high or medium; the
\* risky, the low and the unclassified records add up to all records.
C1_RiskFilter ==
    (AnalysisReturned /\ Truthy(parsed[1])) =>
        LET results == analysis_out.analysis_results
            risky == analysis_out.risky_clients
            idx == RiskyIdx(results)
        IN  /\ results = parsed[1].a
            /\ Len(risky) = Cardinality(idx)
            /\ \A i \in idx : risky[Cardinality({j \in idx : j <= i})] = results[i]
            /\ \A i \in LowIdx(results) \cup UnclassifiedIdx(results) :
                   \A j \in 1..Len(risky) : risky[j] # results[i]
            /\ Cardinality(idx) + Cardinality(LowIdx(results))
                   + Cardinality(UnclassifiedIdx(results)) = Len(results)

\* a returned list with a risky record in upper case after an unclassified one
C1_Witness ==
    /\ AnalysisReturned
    /\ Truthy(parsed[1])
    /\ Len(analysis_out.analysis_results) = 2
    /\ Len(analysis_out.risky_clients) = 1
    /\ UnclassifiedIdx(analysis_out.analysis_results) = {1}
    /\ analysis_out.risky_clients[1].o[RISK_FACTOR] = JStr(<<"High">>)

RiskyReturned == Get(analysis_out, "risky_clients", <<>>)

\* C2: the email stage starts only after the analysis stage has completed and
\* only with a non-empty risky_clients; once the first step is over it has
\* started exactly when risky_clients is non-empty, and a run that ends with
\* an empty risky_clients never ran it.
C2_NotifierAfterClassifier ==
    /\ pcE # "idle" => (pcA = "done" /\ Len(RiskyReturned) > 0)
    /\ step \in {"step2", "done"} => (pcE # "idle" <=> Len(RiskyReturned) > 0)
    /\ (step = "done" /\ Len(RiskyReturned) = 0) =>
           (pcE = "idle" /\ email_out = EmptyDict /\ route = "skip_emails")

\* a run that ended after the email stage ran
C2_Witness ==
    /\ step = "done"
    /\ pcE = "done"
    /\ Len(RiskyReturned) > 0
    /\ Len(analysis_out.analysis_results) > Len(RiskyReturned)

\* C3: the Risk Classifier raises on no oracle response: once the parser has
\* returned, analysis_agent returns too, and with no record it returns empty
\* lists and exactly one error entry; the run is not ended by the classifier.
C3_ClassifierNeverRaises ==
    /\ Len(parsed) > 0 => pcA # "raised"
    /\ (AnalysisReturned /\ ~Truthy(parsed[1])) =>
           /\ analysis_out.analysis_results = <<>>
           /\ analysis_out.risky_clients = <<>>
           /\ Len(analysis_out.errors) = 1
    /\ (step = "failed" /\ pcA = "raised") => Len(parsed) = 0

ParserReturned == Len(parsed) > 0

\* the result of the first of the states A, B, C that succeeds on a span
FirstSuccess(span) ==
    IF json_loads(span).ok THEN <<json_loads(span).v>>
    ELSE IF json_loads(FixedJson(span)).ok THEN <<json_loads(FixedJson(span)).v>>
    ELSE IF Len(SalvagedObjects(span)) > 0 THEN <<JArr(SalvagedObjects(span))>>
    ELSE <<>>

\* C4: the states are attempted in the order A, B, C: B only right after a
\* failed A, C only right after a failed B, nothing after a success, and the
\* value returned is the result of the first state that succeeds.
C4_StrictOrder ==
    /\ \A i \in 1..Len(tried) :
          /\ tried[i].state = "A" => i = 1
          /\ tried[i].state = "B" => (i = 2 /\ tried[1] = Tried("A", FALSE))
          /\ tried[i].state = "C" => (i = 3 /\ tried[2] = Tried("B", FALSE))
          /\ tried[i].ok => i = Len(tried)
    /\ (ParserReturned /\ HasSpan(clean_result) /\ FirstSuccess(json_str) # <<>>) =>
           parsed = FirstSuccess(json_str)
    /\ (ParserReturned /\ tried # <<>> /\ tried[Len(tried)].ok) =>
           parsed = CASE tried[Len(tried)].state = "A" -> <<json_loads(json_str).v>>
                      [] tried[Len(tried)].state = "B" -> <<json_loads(FixedJson(json_str)).v>>
                      [] tried[Len(tried)].state = "C" -> <<JArr(SalvagedObjects(json_str))>>
                      [] tried[Len(tried)].state = "W" -> <<json_loads(clean_result).v>>

\* a response decoded by neither A nor B and salvaged by C
C4_Witness ==
    /\ ParserReturned
    /\ tried = <<Tried("A", FALSE), Tried("B", FALSE), Tried("C", TRUE)>>
    /\ parsed = <<JArr(SalvagedObjects(json_str))>>

Positions(s, t) == {i \in 1..Len(s) : s[i] = t}

\* the spans of a text that are a syntactically valid JSON array
ValidArraySpans(s) ==
    {sp \in Positions(s, "[") \X Positions(s, "]") :
        sp[1] < sp[2] /\ json_loads(SubSeq(s, sp[1], sp[2])).ok}

ArrayAt(s, sp) == json_loads(SubSeq(s, sp[1], sp[2])).v

InString(s, i) == Cardinality({k \in Positions(s, DQ) : k < i}) % 2 = 1

Outside(s, starts) == {k \in starts : ~InString(s, k)}

\* the text corrected by hand: the commas before a closing bracket or brace
\* removed and the commas between adjacent objects added, string values left
\* as they are
ManualFix(s) ==
    LET f1 == SubTrailingCommaFrom(s, "]", Outside(s, TrailingCommaStarts(s, "]")), 1)
        f2 == SubTrailingCommaFrom(f1, "}", Outside(f1, TrailingCommaStarts(f1, "}")), 1)
    IN  SubMissingCommaFrom(f2, Outside(f2, MissingCommaStarts(f2)), 1)

\* C6: an array that is valid but for trailing commas and missing commas
\* between objects is returned as the parse of the text corrected by hand.
C6_RepairEqualsManualFix ==
    (/\ ParserReturned
     /\ HasSpan(clean_result)
     /\ ~json_loads(json_str).ok
     /\ json_loads(ManualFix(json_str)).ok) =>
        parsed = <<json_loads(ManualFix(json_str)).v>>

\* the spans of a text that are a valid JSON object with a client_name
ClientObjectSpans(s) ==
    {sp \in Outside(s, Positions(s, "{")) \X Outside(s, Positions(s, "}")) :
        /\ sp[1] < sp[2]
        /\ json_loads(SubSeq(s, sp[1], sp[2])).ok
        /\ CLIENT_NAME \in DOMAIN json_loads(SubSeq(s, sp[1], sp[2])).v.o}

\* those not inside another one
EmbeddedClientSpans(s) ==
    {sp \in ClientObjectSpans(s) :
        \A other \in ClientObjectSpans(s) :
            other = sp \/ ~(other[1] <= sp[1] /\ sp[2] <= other[2])}

\* the decoded objects in order of appearance
RECURSIVE ObjectsInOrder(_, _)
ObjectsInOrder(s, spans) ==
    IF spans = {} THEN <<>>
    ELSE LET first == CHOOSE sp \in spans : \A other \in spans : sp[1] <= other[1]
         IN  <<json_loads(SubSeq(s, first[1], first[2])).v>>
                 \o ObjectsInOrder(s, spans \ {first})

\* C7: when neither the direct nor the repaired parse decodes the span, the
\* parser returns exactly the valid embedded objects that have a client_name,
\* in order of appearance.
C7_SalvageExact ==
    (/\ ParserReturned
     /\ Len(tried) >= 2
     /\ tried[1] = Tried("A", FALSE)
     /\ tried[2] = Tried("B", FALSE)
     /\ EmbeddedClientSpans(json_str) # {}) =>
        parsed = <<JArr(ObjectsInOrder(json_str, EmbeddedClientSpans(json_str)))>>

\* C8 as stated: whenever the classifier's result list is empty, the debug
\* file holds the raw response.
C8_DebugFileOnEmptyResult ==
    (AnalysisReturned /\ analysis_out.analysis_results = <<>>) =>
        debug_file = <<raw_response>>

DecodeFailed == tried # <<>> /\ ~tried[Len(tried)].ok

\* C8: when every decode attempt has failed the parser attempts the write of
\* the debug file before it returns the empty list, and the file then holds
\* the raw response unless the write failed; a response that decodes is
\* returned with no debug file written.
C8_DebugWriteOnDecodeFailure ==
    /\ (ParserReturned /\ DecodeFailed) =>
           /\ debug_io \in {"written", "error"}
           /\ parsed = <<JArr(<<>>)>>
    /\ debug_io = "written" <=> debug_file = <<raw_response>> /\ ParserReturned /\ DecodeFailed
    /\ debug_io = "error" => debug_file = <<>>
    /\ (ParserReturned /\ ~DecodeFailed) => (debug_io = "none" /\ debug_file = <<>>)

\* the classifier returned its failure dict after the debug file was written
C8_Witness ==
    /\ AnalysisReturned
    /\ DecodeFailed
    /\ debug_io = "written"
    /\ debug_file = <<raw_response>>
    /\ Len(raw_response) > 0
    /\ analysis_out.analysis_results = <<>>

Errors(bag) == Get(bag, "errors", <<>>)
StageKeys(out) == DOMAIN out \ {"errors"}
FirstStepMerged == step \in {"step2", "done"}

\* the bag after the updates of two stages are applied in a given order
MergedInOrder(first, second) == ApplyWrites(ApplyWrites(initial_state, first), second)

\* C9: the keys the Risk Classifier and the Knowledge Chunker return are
\* disjoint except for errors, so after the merge every key holds the value
\* its stage returned and applying the two updates in either order gives the
\* same values, whichever branch finished first.
C9_DisjointKeys ==
    /\ (DOMAIN analysis_out \cap DOMAIN rag_out) \subseteq {"errors"}
    /\ FirstStepMerged =>
           /\ \A k \in StageKeys(analysis_out) : state[k] = analysis_out[k]
           /\ \A k \in StageKeys(rag_out) : state[k] = rag_out[k]
           /\ \A k \in StageKeys(analysis_out) \cup StageKeys(rag_out) :
                  /\ MergedInOrder(analysis_out, rag_out)[k] = state[k]
                  /\ MergedInOrder(rag_out, analysis_out)[k] = state[k]
           /\ Errors(state) = Errors(analysis_out) \o Errors(rag_out)

\* both stages failed, the chunker finished first
C9_Witness ==
    /\ step = "done"
    /\ finished = <<"rag_prep", "analysis">>
    /\ "errors" \in DOMAIN analysis_out
    /\ "errors" \in DOMAIN rag_out
    /\ state.rag_ready = FALSE
    /\ state.analysis_results = <<>>

IsPrefix(a, b) == Len(a) <= Len(b) /\ SubSeq(b, 1, Len(a)) = a

\* C10: the errors field only grows; a merge appends the errors the stages of
\* the step returned, a stage without an errors key appends nothing, and at
\* the end of a run the field holds the errors of every stage.
C10_ErrorsOnlyGrow ==
    /\ [][IsPrefix(Errors(state), Errors(state'))]_vars
    /\ [][step = "step1" /\ step' \in {"step2", "done"} =>
              Errors(state') = Errors(state) \o Errors(analysis_out) \o Errors(rag_out)]_vars
    /\ [][step = "step2" /\ step' = "done" =>
              Errors(state') = Errors(state) \o Errors(email_out)]_vars
    /\ [](step = "done" =>
              Errors(state) = Errors(analysis_out) \o Errors(rag_out) \o Errors(email_out))

\* a run in which both stages of the first step reported an error
C10_Witness ==
    /\ step = "done"
    /\ Len(Errors(analysis_out)) = 1
    /\ Len(Errors(rag_out)) = 1
    /\ Len(state.errors) = 2

ChunkerRunning == pcR \in {"call", "parse", "store", "clear", "add"}

\* C11 as stated: the route decision is taken, and the Notifier started, only
\* when the Knowledge Chunker has completed.
C11_RouteAfterBoth ==
    (route # "" \/ pcE # "idle") => (pcA = "done" /\ pcR = "done")

\* C11: the Notifier starts, and the first step ends, only when both the Risk
\* Classifier and the Knowledge Chunker have completed; the routing function
\* itself has been evaluated as soon as the Risk Classifier returned.
C11_NotifierAfterJoin ==
    /\ pcE # "idle" => (pcA = "done" /\ pcR = "done" /\ route = "send_emails")
    /\ step \in {"step2", "done"} => (pcA = "done" /\ pcR = "done")
    /\ route # "" <=> pcA = "done"

\* the route was decided while the chunker was running, the Notifier started
\* after the chunker had finished
C11_Witness ==
    /\ pcE = "call"
    /\ route = "send_emails"
    /\ finished = <<"analysis", "rag_prep">>
    /\ step = "step2"

AnalysisKeys == {"analysis_results", "risky_clients", "raw_llm_response"}
RagKeys == {"rag_documents", "rag_text", "rag_ready"}
EmailKeys == {"emails_to_send", "email_summary", "emails_generated"}

C13_InputsReadOnly ==
    /\ "usage_data" \notin DOMAIN analysis_out \cup DOMAIN rag_out \cup DOMAIN email_out
    /\ "jira_tickets" \notin DOMAIN analysis_out \cup DOMAIN rag_out \cup DOMAIN email_out
    /\ step \in {"step1", "step2", "done", "failed"} =>
           (state.usage_data = usage_data /\ state.jira_tickets = jira_tickets)
    /\ result # <<>> =>
           (result[1].usage_data = usage_data /\ result[1].jira_tickets = jira_tickets)

\* a finished run in which all three stages returned
C13_Witness ==
    /\ step = "done"
    /\ pcE = "done"
    /\ rag_out # EmptyDict
    /\ Len(analysis_out.analysis_results) > 0
    /\ Len(result[1].usage_data) = 2
    /\ Len(result[1].jira_tickets) = 1

\* the oracle call of the Risk Classifier raised
OracleRaised == pcA = "raised" /\ ~ParserReturned

\* C14: a failure of the classifier's oracle call is not turned into a return
\* value or an error entry: analysis_agent returns only after the oracle
\* answered, and once the call has raised the run can only fail, with no bag.
C14_OracleFailureIsHard ==
    /\ AnalysisReturned => (ParserReturned /\ raw_response = oracle_reply)
    /\ OracleRaised =>
           /\ analysis_out = EmptyDict
           /\ route = ""
           /\ result = <<>>
           /\ step \in {"step1", "failed"}
           /\ Errors(state) = <<>>
    /\ step = "failed" => result = <<>>

\* the run failed on the oracle call although the chunker had succeeded
C14_Witness ==
    /\ step = "failed"
    /\ OracleRaised
    /\ pcR = "done"
    /\ rag_out.rag_ready

\* C15 as stated: a failure of the chunker's oracle call aborts the chunking
\* branch, which produces no return value, and the run returns no bag.
C15_ChunkerOracleFailureAborts ==
    rag_fault = "oracle" => (rag_out = EmptyDict /\ step # "done")

\* C15: a failure of the chunker's oracle call is caught in rag_prep_agent:
\* the stage ends at once, with no second call and no chunk built or stored,
\* and returns the failure dict with the one error entry of the failure; the
\* run goes on and the bag it returns carries that entry.
C15_ChunkerOracleFailureReturned ==
    rag_fault = "oracle" =>
        /\ pcR = "done"
        /\ rag_out = RagFailureReturn("oracle")
        /\ rag_text = <<>>
        /\ documents = <<>>
        /\ step # "failed" \/ pcA = "raised" \/ pcE = "raised"
        /\ step = "done" =>
               /\ result[1].rag_ready = FALSE
               /\ \E i \in 1..Len(result[1].errors) :
                      result[1].errors[i] = "RAG Agent Error: oracle"

\* the run returned its bag, with the records of the classifier, although
\* the oracle call of the chunker had failed
C15_Witness ==
    /\ step = "done"
    /\ rag_fault = "oracle"
    /\ Len(result[1].analysis_results) > 0
    /\ result[1].errors = <<"RAG Agent Error: oracle">>

RagFaults == {"oracle", "parse", "store", "delete", "duplicate", "embed"}

\* C16: rag_prep_agent never raises.  When its oracle call, the parsing of
\* the chunks or the store step failed it returns no chunk, an empty text,
\* rag_ready = False and exactly one error entry, and the bag the run returns
\* still holds what the Risk Classifier returned; when nothing failed it
\* returns rag_ready = True, a non-empty chunk list and no errors key.
C16_ChunkerAlwaysReturns ==
    /\ pcR \in {"idle", "call", "parse", "store", "clear", "add", "done"}
    /\ rag_fault \in RagFaults \cup {"none"}
    /\ rag_fault # "none" => pcR = "done"
    /\ (pcR = "done" /\ rag_fault # "none") =>
           /\ DOMAIN rag_out = {"rag_documents", "rag_text", "rag_ready", "errors"}
           /\ rag_out.rag_documents = <<>>
           /\ rag_out.rag_text = <<>>
           /\ rag_out.rag_ready = FALSE
           /\ Len(rag_out.errors) = 1
    /\ (pcR = "done" /\ rag_fault = "none") =>
           /\ DOMAIN rag_out = {"rag_documents", "rag_text", "rag_ready"}
           /\ rag_out.rag_ready = TRUE
           /\ Len(rag_out.rag_documents) > 0
    /\ (step = "done" /\ rag_fault # "none") =>
           /\ result[1].rag_ready = FALSE
           /\ \A k \in StageKeys(analysis_out) : result[1][k] = analysis_out[k]
           /\ {"analysis_results", "risky_clients", "raw_llm_response"} \subseteq DOMAIN result[1]
           /\ \E i \in 1..Len(result[1].errors) : result[1].errors[i] = rag_out.errors[1]

\* the parsing of the chunks failed and the run returned the records of the
\* classifier with the error entry of the chunker
C16_Witness ==
    /\ step = "done"
    /\ rag_fault = "parse"
    /\ Len(result[1].analysis_results) > 0
    /\ result[1].rag_documents = <<>>
    /\ Len(result[1].errors) = 1

\* the chunks parse_llm_text_to_documents has returned in this call
ChunksReturned == documents # <<>>

OracleChunks == SelectSeq(documents, LAMBDA d : d.source = "rag_agent")
TierOneTypes == {section_patterns[p].section_type : p \in 1..Len(section_patterns)}
TierOneChunks == SelectSeq(OracleChunks, LAMBDA d : d.section_type \in TierOneTypes)
TierTwoChunks ==
    SelectSeq(OracleChunks, LAMBDA d : d.section_type = "full" /\ Head(d.id) = "client")
TierThreeChunks ==
    SelectSeq(OracleChunks, LAMBDA d : d.id = <<"full", "_", "analysis", "_", timestamp>>)

\* the tagged sections of the oracle text that are long enough
LongSections ==
    {i \in 1..Len(rag_text) :
        /\ rag_text[i].kind = "section"
        /\ \E p \in 1..Len(section_patterns) : section_patterns[p].marker = rag_text[i].marker
        /\ ContentLen(rag_text, i) > MinContentLength}

\* the "===== CLIENT:" pieces of the oracle text that hold a closing "====="
ClosedBlocks == {i \in 1..Len(rag_text) : rag_text[i].kind = "legacy" /\ rag_text[i].closed}

\* C17: the oracle-derived chunks come from one tier only: the tagged
\* sections when one of them is long enough, else the "===== CLIENT:" pieces
\* when there is one, else the whole text as one chunk; every chunk of a
\* tagged section is longer than the threshold and there is always at least
\* one oracle-derived chunk.
C17_OneTier ==
    ChunksReturned =>
        /\ Len(OracleChunks) >= 1
        /\ Len(OracleChunks) = Len(TierOneChunks) + Len(TierTwoChunks) + Len(TierThreeChunks)
        /\ Len(TierOneChunks) = Cardinality(LongSections)
        /\ Len(TierTwoChunks) = IF LongSections = {} THEN Cardinality(ClosedBlocks) ELSE 0
        /\ Len(TierThreeChunks) = IF LongSections = {} /\ ClosedBlocks = {} THEN 1 ELSE 0
        /\ \A j \in 1..Len(TierOneChunks) : TierOneChunks[j].content_len > MinContentLength

\* a text whose only tagged section is too short, chunked by its
\* "===== CLIENT:" piece
C17_Witness ==
    /\ pcR = "done"
    /\ rag_fault = "none"
    /\ \E i \in 1..Len(rag_text) :
           /\ rag_text[i].kind = "section"
           /\ rag_text[i].marker = "CLIENT OVERVIEW"
           /\ ContentLen(rag_text, i) = MinContentLength
    /\ Len(TierTwoChunks) = 1
    /\ Len(TierOneChunks) = 0
    /\ Len(TierThreeChunks) = 0

\* the chunks of one section type
ChunksOfType(type) == SelectSeq(documents, LAMBDA d : d.section_type = type)

\* the normalized client names of the tickets and the tickets of one of them
NormalizedClients == {TicketClient(jira_tickets[i]) : i \in 1..Len(jira_tickets)}
KeysOfClient(client) ==
    LET mine == SelectSeq(jira_tickets, LAMBDA t : TicketClient(t) = client)
    IN  [j \in 1..Len(mine) |-> mine[j].key]

\* one jira_tickets chunk for each client of the tickets, holding its tickets,
\* and one chunk of each type made from usage_data, none from the oracle text
TicketGroupsAndUsageChunks ==
    /\ Len(ChunksOfType("jira_tickets")) = Cardinality(NormalizedClients)
    /\ \A c \in NormalizedClients :
           \E j \in 1..Len(ChunksOfType("jira_tickets")) :
               /\ ChunksOfType("jira_tickets")[j].client_name = c
               /\ ChunksOfType("jira_tickets")[j].tickets = KeysOfClient(c)
    /\ Len(ChunksOfType("representatives")) = 1
    /\ Len(ChunksOfType("all_clients")) = 1
    /\ Len(ChunksOfType("client_list")) = 1
    /\ \A t \in {"jira_tickets", "jira_summary", "representatives", "all_clients", "client_list"} :
           \A j \in 1..Len(ChunksOfType(t)) :
               ChunksOfType(t)[j].source \in {"jira_direct", "usage_data"}

\* C18 as stated: whatever the oracle text and the inputs, an empty ticket
\* list included, the chunks hold one jira_tickets chunk per client of the
\* tickets, one jira_summary chunk and one chunk each of representatives,
\* all_clients and client_list.
C18_AugmentationAlways ==
    ChunksReturned =>
        /\ TicketGroupsAndUsageChunks
        /\ Len(ChunksOfType("jira_summary")) = 1

\* C18: whatever the oracle text, the chunks hold one chunk each of
\* representatives, all_clients and client_list, and, when the ticket list is
\* not empty, one jira_tickets chunk per client of the tickets with all its
\* tickets and one jira_summary chunk listing every ticket; with an empty
\* ticket list there is no jira_tickets and no jira_summary chunk.
C18_Augmentation ==
    ChunksReturned =>
        /\ TicketGroupsAndUsageChunks
        /\ Len(ChunksOfType("jira_summary")) = IF jira_tickets = <<>> THEN 0 ELSE 1
        /\ \A j \in 1..Len(ChunksOfType("jira_summary")) :
               ChunksOfType("jira_summary")[j].tickets
                   = [i \in 1..Len(jira_tickets) |-> jira_tickets[i].key]

\* an oracle text with no section and no block, tickets of two clients, one
\* of them with two tickets
C18_Witness ==
    /\ ChunksReturned
    /\ Len(TierThreeChunks) = 1
    /\ Cardinality(NormalizedClients) = 2
    /\ \E j \in 1..Len(ChunksOfType("jira_tickets")) :
           ChunksOfType("jira_tickets")[j].tickets = <<"T1", "T3">>
    /\ Len(ChunksOfType("jira_summary")) = 1

\* C19 as stated: the chunks parse_llm_text_to_documents returns in one call
\* have pairwise distinct ids, whatever the oracle text and the inputs.
C19_DistinctIds ==
    ChunksReturned =>
        \A i, j \in 1..Len(documents) : i # j => documents[i].id # documents[j].id

\* the ids of the chunks of the current call
NewIds == {documents[j].id : j \in 1..Len(documents)}

\* the store step has completed in the current call
StoreCompleted == pcR = "done" /\ rag_fault = "none"

\* C20: when the store step has completed, the index holds the ids of the
\* chunks of this call and nothing else, as many as there are chunks,
\* whatever it held before; the index changes only by the purge of all it
\* holds or by the insertion of the new chunks into the empty index.
C20_FullReplace ==
    /\ [](StoreCompleted =>
              /\ collection = NewIds
              /\ Cardinality(collection) = Len(documents))
    /\ [](pcR = "add" => collection = {})
    /\ [][collection' # collection =>
              \/ pcR = "clear" /\ collection' = {} /\ deleted' = Cardinality(collection)
              \/ pcR = "add" /\ collection = {} /\ collection' = NewIds]_vars

\* the store step completed on an index that held chunks of an earlier call,
\* made at another second: they were deleted and the index holds the new
\* chunks only
C20_Witness ==
    /\ StoreCompleted
    /\ deleted > 0
    /\ timestamp = "t2"
    /\ collection = NewIds
    /\ Cardinality(collection) = Len(documents)
    /\ Cardinality(collection) # deleted

\* the client named by a record, <<>> when it names none
RecordClient(c) ==
    IF c.t = "obj" /\ CLIENT_NAME \in DOMAIN c.o /\ c.o[CLIENT_NAME].t = "str"
    THEN c.o[CLIENT_NAME].s ELSE <<>>

InputClients == {usage_data[i].client_name : i \in 1..Len(usage_data)}

\* C21 as stated: when analysis_agent returns records, analysis_results holds
\* exactly one record for each client of usage_data and no record of another
\* client.
C21_OnePerInputClient ==
    (AnalysisReturned /\ Len(analysis_out.analysis_results) > 0) =>
        LET results == analysis_out.analysis_results
        IN  /\ \A c \in InputClients :
                   Cardinality({j \in 1..Len(results) : RecordClient(results[j]) = c}) = 1
            /\ \A j \in 1..Len(results) : RecordClient(results[j]) \in InputClients

\* the value of a field of a raw ticket, default when the ticket has none
FieldOf(ticket, key, default) ==
    IF <<"fields">> \in DOMAIN ticket.o /\ ticket.o[<<"fields">>].t = "obj"
    THEN Get(ticket.o[<<"fields">>].o, key, default)
    ELSE default

\* the three attribution tiers of a raw ticket: <<name>> when the tier
\* matches, <<>> when it does not
CustomTier(ticket) ==
    LET custom == FieldOf(ticket, <<"customfield_10159">>, None)
    IN  IF custom.t = "str" /\ custom.s # <<>> /\ custom.s # <<"Unknown">>
        THEN <<custom>> ELSE <<>>
DescriptionTier(ticket) ==
    LET text == extract_ticket_text(FieldOf(ticket, <<"description">>, None))
    IN  IF text.ok /\ extract_client_from_description(text.v) # <<>>
        THEN <<JStr(extract_client_from_description(text.v))>> ELSE <<>>
SummaryTier(ticket) ==
    LET summary == FieldOf(ticket, <<"summary">>, None)
    IN  IF summary.t = "str" /\ SummaryMatch(summary.s) # <<>>
           /\ strip(SummaryMatch(summary.s)[1]) # <<>>
        THEN <<JStr(strip(SummaryMatch(summary.s)[1]))>> ELSE <<>>

\* C22: the client_name of every record simplify_jira_tickets builds is
\* neither None nor the empty string, and it is "Unknown" when no tier names
\* a client.
C22_ClientNeverEmpty ==
    \A j \in 1..Len(simplified) :
        /\ simplified[j].client_name # None
        /\ simplified[j].client_name # JStr(<<>>)
        /\ Truthy(simplified[j].client_name)
        /\ (CustomTier(raw_tickets[j]) = <<>> /\ DescriptionTier(raw_tickets[j]) = <<>>
                /\ SummaryTier(raw_tickets[j]) = <<>>)
               => simplified[j].client_name = JStr(<<"Unknown">>)

\* the description and the summary of a ticket matched with a blank value and
\* its record names the client Unknown
C22_Witness ==
    /\ pcT = "returned"
    /\ \E j \in 1..Len(simplified) :
           /\ raw_tickets[j] = TkBlankMatches
           /\ simplified[j].client_name = JStr(<<"Unknown">>)

\* C23: the client_name of a record is the value of the first tier that
\* matches, in the order custom field, description, summary, and "Unknown"
\* when none does; a custom field equal to "Unknown" does not match.
C23_FirstTierWins ==
    \A j \in 1..Len(simplified) :
        simplified[j].client_name =
            IF CustomTier(raw_tickets[j]) # <<>> THEN CustomTier(raw_tickets[j])[1]
            ELSE IF DescriptionTier(raw_tickets[j]) # <<>> THEN DescriptionTier(raw_tickets[j])[1]
            ELSE IF SummaryTier(raw_tickets[j]) # <<>> THEN SummaryTier(raw_tickets[j])[1]
            ELSE JStr(<<"Unknown">>)

\* a ticket whose three tiers name a client and one whose custom field is
\* "Unknown": the custom field wins in the first, the description in the second
C23_Witness ==
    /\ pcT = "returned"
    /\ raw_tickets = <<TkCustom, TkUnknownCustom>>
    /\ simplified[1].client_name = JStr(NameA)
    /\ simplified[2].client_name = JStr(<<"B">>)
    /\ SummaryTier(TkCustom) = <<JStr(<<"B">>)>>
    /\ SummaryTier(TkUnknownCustom) = <<JStr(NameA)>>

\* C24 as stated: simplify_jira_tickets never raises and returns one record
\* per ticket, in the order of the tickets, with a default in the place of
\* every field that is missing or null.
C24_NeverRaisesOnePerTicket ==
    /\ pcT # "raised"
    /\ pcT = "returned" =>
           /\ Len(simplified) = Len(raw_tickets)
           /\ \A j \in 1..Len(simplified) :
                  /\ simplified[j].key = Get(raw_tickets[j].o, <<"key">>, JStr(<<>>))
                  /\ simplified[j].description.t = "str"
                  /\ simplified[j].summary.t = "str"
                  /\ simplified[j].labels.t = "arr"

\* the steps of rag_prep_agent that fail when the vector store or the
\* embedding service is unavailable
IndexerFaults == {"store", "delete", "embed"}

\* the report of the Notifier was not sent
ReportNotSent ==
    /\ pcE = "done"
    /\ Len(email_out.emails_to_send) = 1
    /\ ~email_out.emails_to_send[1].sent

\* C25 as stated: when the Indexer or the Notifier failed, the run does not
\* raise for it and the bag it returns holds the analysis_results of the
\* Risk Classifier and the chunks the Knowledge Chunker built in that run.
C25_ResultsSurviveFailures ==
    /\ pcR # "raised"
    /\ (step = "done" /\ (rag_fault \in IndexerFaults \/ ReportNotSent)) =>
           /\ result[1].analysis_results = analysis_out.analysis_results
           /\ rag_fault \in IndexerFaults =>
                  (Len(documents) > 0 /\ result[1].rag_documents = documents)

\* C26: when the API credentials or the usage data file are missing, main
\* stops before run_retention_analysis is called: no stage of the workflow
\* takes a step, the oracle is never invoked and nothing is stored or sent;
\* without credentials the usage file is not even looked at.
NoStageRan ==
    /\ step = "main"
    /\ pcA = "idle" /\ pcR = "idle" /\ pcE = "idle"
    /\ raw_response = <<>> /\ rag_text = <<>>
    /\ finished = <<>> /\ result = <<>>
    /\ collection = {}

C26_MissingInputStopsMain ==
    /\ ~api_key => (pcM \in {"start", "stopped"} /\ NoStageRan)
    /\ ~usage_file => (pcM \in {"start", "validated", "stopped"} /\ NoStageRan)
    /\ pcM = "stopped" => ((~api_key \/ ~usage_file) /\ NoStageRan)

C26_Witness ==
    /\ pcM = "stopped"
    /\ api_key
    /\ ~usage_file
    /\ NoStageRan

\* C27: two runs of the document construction on the same usage data and
\* tickets give the same synthesized documents (representatives, all-clients
\* table, client list) whatever the oracle text of each run was: once the id
\* suffix and generated_at are taken away the documents are equal.
Synthesized(docs) == SelectSeq(docs, LAMBDA d : d.source = "usage_data")

WithoutTimestamps(docs) ==
    [i \in 1..Len(docs) |->
        [name |-> SubSeq(docs[i].id, 1, Len(docs[i].id) - 1),
         section_type |-> docs[i].section_type,
         source |-> docs[i].source,
         content |-> docs[i].content]]

BothRunsBuilt == Len(documents) > 0 /\ Len(last_documents) > 0

EngagementEntries ==
    LET r == email_out.client_engagement_results
    IN  r.sent \o r.skipped \o r.failed

EngagementReturned ==
    /\ pcE = "done"
    /\ "client_engagement_results" \in DOMAIN email_out

C28_EngagementHandlesFirst ==
    /\ pcE # "raised"
    /\ EngagementReturned =>
           /\ Len(EngagementEntries) <= 1
           /\ Len(EngagementEntries) = 1 =>
                  EngagementEntries[1] = RiskyClients(Get(state, "analysis_results", <<>>))[1]

\* C29: whenever the workflow dispatches the Notifier, the high and medium
\* counts of the Notifier add up to the number of risky clients, so its
\* report never has priority "low" nor the subject "All Clients Healthy";
\* the counts printed by the router and by the Risk Classifier add up to
\* len(risky_clients) as well.
NotifierReport == email_out.emails_to_send[1]

NotifierReported ==
    /\ pcE = "done"
    /\ Get(email_out, "emails_generated", FALSE)

C29_CountsCoverRiskyClients ==
    /\ NotifierReported =>
           /\ NotifierReport.high_risk + NotifierReport.medium_risk
                  = Len(Get(state, "risky_clients", <<>>))
           /\ NotifierReport.priority # "low"
           /\ NotifierReport.subject # "Retention Report: All Clients Healthy"
    /\ route = "send_emails" =>
           LET bag == ApplyWrites(state, analysis_out)
               risky == Get(bag, "risky_clients", <<>>)
           IN  /\ RouterHighCount(bag) + RouterMediumCount(bag) = Len(risky)
               /\ PrintedHighRisk(Get(bag, "analysis_results", <<>>))
                      + PrintedMediumRisk(Get(bag, "analysis_results", <<>>)) = Len(risky)

\* C30: on every return path (direct, repair, salvage, whole-text fallback,
\* failure) the value parse_llm_response returns is a list whose elements are
\* all JSON objects: never a bare object, a scalar or a list holding an
\* element that is not an object.
C30_ReturnsListOfObjects ==
    Len(parsed) > 0 =>
        /\ parsed[1].t = "arr"
        /\ \A j \in 1..Len(parsed[1].a) : parsed[1].a[j].t = "obj"

====
